---------------------------- MODULE Spec2Model ----------------------------
(***************************************************************************)
(* A model of semcode's indexing pipeline: IndexerService.index_repository *)
(* (copy -> chunk -> embed -> upsert -> register) together with the        *)
(* collaborators it drives: RepositoryIngestionManager, TreeSitterChunker, *)
(* MilvusVectorStore and RepositoryRegistry.                               *)
(*                                                                         *)
(* Text is a sequence of one-character strings; a file on disk is its      *)
(* text.  Filesystem paths are sequences of path components.               *)
(***************************************************************************)
EXTENDS Integers, Sequences, FiniteSets, TLC

(***************************************************************************)
(* Bounds of the model.                                                    *)
(***************************************************************************)
\* Number of index_repository runs explored in one behaviour.
MaxRuns == 2
\* Number of edits of the user's source tree between runs.
MaxEdits == 1
\* Largest configured batch size (settings are drawn from 0..MaxBatch).
MaxBatch == 2
\* TreeSitterChunker limits, scaled down from the defaults 200 and 6000.
max_lines_per_chunk == 2
max_chars_per_chunk == 6

(***************************************************************************)
(* State                                                                   *)
(***************************************************************************)
VARIABLES
    disk,             \* the user's sources: source path -> (relative path -> text)
    edits,            \* number of edits of the sources so far
    target_exists,    \* the workspace target workspace/RepoName exists
    target_files,     \* the files under it: relative path -> text
    grammar_ok,       \* the tree-sitter grammar loads and parses
    code2prompt,      \* the code2prompt package can be imported
    ignore_dirs,      \* the ignore_dirs argument the caller gives to a run
    chunker,          \* a TreeSitterChunker: its two limits
    file_text,        \* the text of the file given to that chunker
    segments_out,     \* <<segments>> once _segment_lines returned them
    chunks_out,       \* <<chunks>> once chunk_file returned them
    connected,        \* IndexerService._connected
    collection,       \* MilvusVectorStore._collection is not None
    store,            \* the rows of the Milvus collection: id -> row
    records,          \* RepositoryRegistry._records: name -> record
    registry_file,    \* the persisted registry.json: name -> record
    pc,               \* where the current run of index_repository is
    runs,             \* number of runs started
    paths,            \* the run's paths argument
    force,            \* the run's force argument
    stages,           \* the tags given to the stage callback, in order
    repo_metadata,    \* <<metadata>> once ingest_sources returned
    chunks,           \* the chunks of chunk_repository
    batch_size,       \* the local batch_size of the batch loop being run
    loop_start,       \* the loop variable start of that loop
    vectors,          \* _build_payloads' vectors
    payloads,         \* the payloads _build_payloads returned
    embed_events,     \* embed_documents calls and embed_progress reports of
                      \* the _build_payloads call being run
    upsert_calls,     \* number of upsert_embeddings calls of the run
    upsert_events,    \* collection writes and upsert_progress reports of the
                      \* upsert_embeddings call being run or just ended
    inserted,         \* upsert_embeddings' inserted counter
    upsert_success,   \* index_repository's upsert_success
    upsert_raised,    \* upsert_embeddings raised in this run
    connect_failed,   \* _ensure_connection returned False in this run
    register_calls,   \* the records given to registry.register in this run
    result,           \* <<IndexingResult>> once the run returned
    exc,              \* the exception that left index_repository, or None
    run_start,        \* the registry, the store and the sources as the run started
    previous,         \* <<summary>> of the run before this one, if it returned
    jobs,             \* JobManager._jobs, in order of creation, each with the
                      \* position of its background task
    direct,           \* the /ingest requests being handled or handled
    responses,        \* the status codes of the requests refused
    telemetry_enabled,\* settings.telemetry_enabled
    telemetry,        \* Telemetry: _ingest, _query and _history
    snap,             \* the /telemetry request being handled: its position
                      \* in Telemetry.snapshot and what it has read so far
    snapshots         \* the snapshots returned

None == "None"
NL == "\n"

Min(a, b) == IF a < b THEN a ELSE b
Max(a, b) == IF a > b THEN a ELSE b

\* Python's s[a:b] for 0 <= a, on a sequence.
Slice(s, a, b) == SubSeq(s, a + 1, Min(b, Len(s)))

\* Python's range(0, total, step) as the sequence of its values.
RangeStep(total, step) == [k \in 1..((total + step - 1) \div step) |-> (k - 1) * step]

(***************************************************************************)
(* Text primitives used by the chunker.                                    *)
(***************************************************************************)
CR == "\r"

RECURSIVE SplitLinesFrom(_, _, _, _)
SplitLinesFrom(text, i, cur, acc) ==
    IF i > Len(text)
    THEN IF cur = <<>> THEN acc ELSE Append(acc, cur)
    ELSE IF text[i] = CR /\ i < Len(text) /\ text[i + 1] = NL
         THEN SplitLinesFrom(text, i + 2, <<>>, Append(acc, cur))
         ELSE IF text[i] \in {NL, CR}
              THEN SplitLinesFrom(text, i + 1, <<>>, Append(acc, cur))
              ELSE SplitLinesFrom(text, i + 1, Append(cur, text[i]), acc)

\* str.splitlines(): lines without their terminators ("\n", "\r\n" or "\r");
\* no empty last line.
splitlines(text) == SplitLinesFrom(text, 1, <<>>, <<>>)

RECURSIVE read_text(_)
\* path.read_text(): the text of the file with every "\r\n" and every other
\* "\r" turned into "\n" (text mode, universal newlines).
read_text(text) ==
    IF text = <<>> THEN <<>>
    ELSE IF text[1] = CR
         THEN IF Len(text) > 1 /\ text[2] = NL
              THEN <<NL>> \o read_text(SubSeq(text, 3, Len(text)))
              ELSE <<NL>> \o read_text(Tail(text))
         ELSE <<text[1]>> \o read_text(Tail(text))

RECURSIVE join_terminated(_)
\* A variant that ends every line with a newline.
join_terminated(lines) ==
    IF lines = <<>> THEN <<>>
    ELSE lines[1] \o <<NL>> \o join_terminated(Tail(lines))

RECURSIVE join(_)
\* "\n".join(lines)
join(lines) ==
    IF lines = <<>> THEN <<>>
    ELSE IF Len(lines) = 1 THEN lines[1]
         ELSE lines[1] \o <<NL>> \o join(Tail(lines))

\* not text.strip(): only whitespace, or empty.
IsBlank(text) == \A i \in 1..Len(text) : text[i] \in {" ", NL, CR}

\* text.count("\n")
count_newlines(text) == Cardinality({i \in 1..Len(text) : text[i] = NL})

(***************************************************************************)
(* TreeSitterChunker                                                       *)
(***************************************************************************)
RECURSIVE SegmentLoop(_, _, _, _, _, _, _)
SegmentLoop(lines, idx, start, char_count, segments, max_lines, max_chars) ==
    IF idx >= Len(lines)
    THEN IF start < Len(lines) THEN Append(segments, <<start, Len(lines)>>) ELSE segments
    ELSE LET line_len   == Len(lines[idx + 1]) + 1
             line_count == idx - start
         IN  IF idx > start /\ (line_count >= max_lines \/ (char_count + line_len) > max_chars)
             THEN SegmentLoop(lines, idx + 1, idx, line_len,
                              Append(segments, <<start, idx>>), max_lines, max_chars)
             ELSE SegmentLoop(lines, idx + 1, start, char_count + line_len,
                              segments, max_lines, max_chars)

RECURSIVE SegmentLoopLate(_, _, _, _, _, _, _)
SegmentLoopLate(lines, idx, start, char_count, segments, max_lines, max_chars) ==
    IF idx >= Len(lines)
    THEN IF start < Len(lines) THEN Append(segments, <<start, Len(lines)>>) ELSE segments
    ELSE LET line_len   == Len(lines[idx + 1]) + 1
             line_count == idx - start
         IN  IF idx > start /\ (line_count > max_lines \/ (char_count + line_len) > max_chars)
             THEN SegmentLoopLate(lines, idx + 1, idx, line_len,
                                  Append(segments, <<start, idx>>), max_lines, max_chars)
             ELSE SegmentLoopLate(lines, idx + 1, start, char_count + line_len,
                                  segments, max_lines, max_chars)

\* A variant that closes a segment one line late (> instead of >=).
segment_lines_late(lines, max_lines, max_chars) ==
    IF lines = <<>> THEN <<>>
    ELSE SegmentLoopLate(lines, 0, 0, 0, <<>>, max_lines, max_chars)

\* The half-open 0-based index ranges <<start, end>> of the segments.
segment_lines(lines, max_lines, max_chars) ==
    IF lines = <<>> THEN <<>> ELSE SegmentLoop(lines, 0, 0, 0, <<>>, max_lines, max_chars)

\* A variant that leaves out the last, shorter piece.
split_text_dropping_tail(text, max_chars) ==
    IF text = <<>> THEN <<>>
    ELSE IF Len(text) <= max_chars THEN <<text>>
         ELSE [k \in 1..(Len(text) \div max_chars) |->
                  Slice(text, (k - 1) * max_chars, k * max_chars)]

\* A variant without the split: the text is one piece whatever its length.
split_text_whole(text, max_chars) == IF text = <<>> THEN <<>> ELSE <<text>>

split_text_by_chars(text, max_chars) ==
    IF text = <<>> THEN <<>>
    ELSE IF Len(text) <= max_chars THEN <<text>>
         ELSE [k \in 1..Len(RangeStep(Len(text), max_chars)) |->
                  Slice(text, RangeStep(Len(text), max_chars)[k],
                              RangeStep(Len(text), max_chars)[k] + max_chars)]

\* tree-sitter's parse of the file, reduced to what the chunker reads of it:
\* the type of the first named child of the root, None when there is none.
detect_primary_symbol(text) == IF IsBlank(text) THEN None ELSE "expression_statement"

RECURSIVE PieceLoop(_, _, _, _, _, _, _)
\* The inner loop over the pieces of one segment (structural path).
PieceLoop(pieces, piece_idx, piece_start_line, max_end_line, path, language, symbol) ==
    IF piece_idx >= Len(pieces) THEN <<>>
    ELSE LET piece    == pieces[piece_idx + 1]
             counted  == piece_start_line + count_newlines(piece)
             piece_end_line == IF counted > max_end_line THEN max_end_line ELSE counted
             chunk    == [path       |-> path,
                          language   |-> language,
                          start_line |-> piece_start_line,
                          end_line   |-> Max(piece_start_line, piece_end_line),
                          content    |-> piece,
                          symbol     |-> IF piece_idx = 0 THEN symbol ELSE None]
         IN  IF piece = <<>>
             THEN PieceLoop(pieces, piece_idx + 1, piece_start_line, max_end_line,
                            path, language, symbol)
             ELSE <<chunk>> \o
                  PieceLoop(pieces, piece_idx + 1,
                            Min(piece_end_line + 1, max_end_line + 1), max_end_line,
                            path, language, symbol)

RECURSIVE SegmentChunks(_, _, _, _, _, _, _, _)
SegmentChunks(lines, segments, idx, path, language, primary_symbol, max_lines, max_chars) ==
    IF idx >= Len(segments) THEN <<>>
    ELSE LET start_idx    == segments[idx + 1][1]
             end_idx      == segments[idx + 1][2]
             segment_text == join(Slice(lines, start_idx, end_idx))
             max_end_line == start_idx + (end_idx - start_idx)
         IN  (IF IsBlank(segment_text) THEN <<>>
              ELSE PieceLoop(split_text_by_chars(segment_text, max_chars), 0,
                             start_idx + 1, max_end_line, path, language,
                             IF idx = 0 THEN primary_symbol ELSE None))
             \o SegmentChunks(lines, segments, idx + 1, path, language,
                              primary_symbol, max_lines, max_chars)

RECURSIVE SplitNewlinesFrom(_, _, _, _)
SplitNewlinesFrom(text, i, cur, acc) ==
    IF i > Len(text) THEN Append(acc, cur)
    ELSE IF text[i] = NL
         THEN SplitNewlinesFrom(text, i + 1, <<>>, Append(acc, cur))
         ELSE SplitNewlinesFrom(text, i + 1, Append(cur, text[i]), acc)

\* A variant that cuts the lines with text.split("\n").
chunk_with_tree_sitter_split(path, text, language, max_lines, max_chars) ==
    LET lines == SplitNewlinesFrom(text, 1, <<>>, <<>>)
    IN  SegmentChunks(lines, segment_lines(lines, max_lines, max_chars),
                      0, path, language, detect_primary_symbol(text),
                      max_lines, max_chars)

chunk_with_tree_sitter(path, text, language, max_lines, max_chars) ==
    SegmentChunks(splitlines(text),
                  segment_lines(splitlines(text), max_lines, max_chars),
                  0, path, language, detect_primary_symbol(text), max_lines, max_chars)

RECURSIVE FallbackPieceLoop(_, _, _, _, _, _)
\* The inner loop over the pieces of one segment (plain-text fallback).
FallbackPieceLoop(pieces, piece_idx, piece_start_line, max_end_line, path, language) ==
    IF piece_idx >= Len(pieces) THEN <<>>
    ELSE LET piece    == pieces[piece_idx + 1]
             counted  == piece_start_line + count_newlines(piece)
             piece_end_line == IF counted > max_end_line THEN max_end_line ELSE counted
             chunk    == [path       |-> path,
                          language   |-> language,
                          start_line |-> piece_start_line,
                          end_line   |-> Max(piece_start_line, piece_end_line),
                          content    |-> piece,
                          symbol     |-> None]
         IN  IF piece = <<>>
             THEN FallbackPieceLoop(pieces, piece_idx + 1, piece_start_line,
                                    max_end_line, path, language)
             ELSE <<chunk>> \o
                  FallbackPieceLoop(pieces, piece_idx + 1,
                                    Min(piece_end_line + 1, max_end_line + 1),
                                    max_end_line, path, language)

RECURSIVE FallbackSegmentChunks(_, _, _, _, _, _, _)
FallbackSegmentChunks(lines, segments, idx, path, language, max_lines, max_chars) ==
    IF idx >= Len(segments) THEN <<>>
    ELSE LET start_idx    == segments[idx + 1][1]
             end_idx      == segments[idx + 1][2]
             segment_text == join(Slice(lines, start_idx, end_idx))
             max_end_line == start_idx + (end_idx - start_idx)
         IN  (IF IsBlank(segment_text) THEN <<>>
              ELSE FallbackPieceLoop(split_text_by_chars(segment_text, max_chars), 0,
                                     start_idx + 1, max_end_line, path, language))
             \o FallbackSegmentChunks(lines, segments, idx + 1, path, language,
                                      max_lines, max_chars)

\* A variant that returns the file as a single chunk.
build_fallback_chunk_whole(path, text, language, max_lines, max_chars) ==
    << [path       |-> path,
        language   |-> language,
        start_line |-> 1,
        end_line   |-> Len(splitlines(text)),
        content    |-> text,
        symbol     |-> None] >>

build_fallback_chunks(path, text, language, max_lines, max_chars) ==
    LET lines == splitlines(read_text(text))
    IN  FallbackSegmentChunks(lines, segment_lines(lines, max_lines, max_chars),
                              0, path, language, max_lines, max_chars)

\* chunk_file: the structural path when the grammar loads and parses, the
\* plain-text fallback when _chunk_with_tree_sitter raises.
chunk_file(path, text, language, parsed, max_lines, max_chars) ==
    IF parsed
    THEN chunk_with_tree_sitter(path, text, language, max_lines, max_chars)
    ELSE build_fallback_chunks(path, text, language, max_lines, max_chars)

(***************************************************************************)
(* The filesystem of the model.                                            *)
(***************************************************************************)
X(n) == [i \in 1..n |-> "x"]

\* File texts the user's source tree can hold.
TextA1 == X(2) \o <<NL>> \o X(1) \o <<NL>> \o X(3) \o <<NL>>
TextA2 == TextA1 \o X(1) \o <<NL>>
TextLong == X(2 * max_chars_per_chunk + 1)
TextB == X(1) \o <<NL>>
TextEmpty == <<>>

\* The repository name passed to index_repository, and the workspace root.
RepoName == "demo"
WorkspaceRoot == <<"ws">>

SourceDir == <<"u", "app">>
MissingSource == <<"u", "gone">>

\* The user's source directory as first ingested: relative path -> text.
InitialTree ==
    (<<"a.py">> :> TextA1) @@ (<<"b.py">> :> TextB) @@
    (<<".git", "c.py">> :> TextB) @@ (<<"r.md">> :> TextB)

\* A second source directory, without any source file.
DocsDir == <<"u", "docs">>
DocsTree == (<<"r.md">> :> TextB) @@ (<<"e.py">> :> TextEmpty)

\* What one edit of the source tree can do: rewrite a.py.
EditChoices == { <<(<<"a.py">>), TextA2>>, <<(<<"a.py">>), TextLong>> }

\* The values of the paths argument explored.
PathsChoices == { <<SourceDir>>, <<DocsDir>>, <<>>, <<SourceDir, MissingSource>> }

Restrict(f, S) == [p \in S |-> f[p]]
EmptyTree == Restrict(InitialTree, {})

(***************************************************************************)
(* RepositoryIngestionManager                                              *)
(***************************************************************************)
DEFAULT_IGNORE_PATTERNS ==
    << ".*", ".git", ".hg", ".svn", ".idea", ".vscode", ".DS_Store",
       "__pycache__", ".mypy_cache", ".pytest_cache", ".ruff_cache", ".venv",
       "venv", "node_modules", "build*", "dist", "tmp", "vcpkg_installed",
       "CMakeFiles" >>

\* The names of the model's filesystem that begin with a dot / with "build"
\* / that end with ".md".
DotNames == {".git"}
BuildNames == {"build"}
MdNames == {"r.md"}

\* fnmatch.fnmatch(name, pattern) on the names and patterns of the model: a
\* pattern without wildcard matches itself, ".*" and "build*" match a
\* prefix, "*.md" a suffix.
fnmatch(name, pattern) ==
    \/ pattern = name
    \/ pattern = ".*" /\ name \in DotNames
    \/ pattern = "build*" /\ name \in BuildNames
    \/ pattern = "*.md" /\ name \in MdNames

\* name.strip() on the patterns a caller of the model gives.
strip(name) ==
    IF name = " b.py " THEN "b.py" ELSE IF name = " " THEN "" ELSE name

RECURSIVE fromkeys(_, _)
\* list(dict.fromkeys(items)): the first occurrence of each item, in order.
fromkeys(items, seen) ==
    IF items = <<>> THEN <<>>
    ELSE IF items[1] \in seen THEN fromkeys(Tail(items), seen)
         ELSE <<items[1]>> \o fromkeys(Tail(items), seen \cup {items[1]})

\* The caller's patterns, stripped, without the empty ones.
caller_patterns(given) ==
    SelectSeq([i \in 1..Len(given) |-> strip(given[i])], LAMBDA n : n # "")

\* A variant in which the caller's patterns, when given, replace the defaults.
ignore_patterns_replacing(given) ==
    IF caller_patterns(given) = <<>> THEN DEFAULT_IGNORE_PATTERNS
    ELSE fromkeys(caller_patterns(given), {})

\* combined_ignores: the defaults followed by the caller's patterns.
ignore_patterns(given) ==
    fromkeys(DEFAULT_IGNORE_PATTERNS \o caller_patterns(given), {})

ignored(name, patterns) == \E i \in 1..Len(patterns) : fnmatch(name, patterns[i])

\* Path.suffix.lower() of the file names of the model.
suffix(name) ==
    IF name \in {"a.py", "b.py", "c.py", "e.py"} THEN ".py"
    ELSE IF name = "r.md" THEN ".md" ELSE ""

SOURCE_SUFFIXES == {".py", ".cpp", ".cxx", ".cc", ".hpp", ".hxx", ".hh"}

guess_language(path) ==
    IF suffix(path[Len(path)]) = ".py" THEN "python"
    ELSE IF suffix(path[Len(path)]) \in {".cpp", ".cxx", ".cc", ".hpp", ".hxx", ".hh"}
         THEN "cpp" ELSE None

\* The copy of one source into the target: the destination of the same name
\* is removed if present, then the source is copied without ignored entries.
copy_source(files, tree, src, patterns) ==
    LET src_name == src[Len(src)]
        kept     == Restrict(files, {p \in DOMAIN files : p[1] # src_name})
        copied   == {rel \in DOMAIN tree :
                        \A i \in 1..Len(rel) : ~ignored(rel[i], patterns)}
    IN  IF ignored(src_name, patterns) THEN files
        ELSE [p \in {<<src_name>> \o rel : rel \in copied} |->
                 tree[SubSeq(p, 2, Len(p))]] @@ kept

RECURSIVE copy_sources(_, _, _, _, _)
\* The copy loop over the first k sources.
copy_sources(files, trees, sources, k, patterns) ==
    IF k = 0 THEN files
    ELSE copy_source(copy_sources(files, trees, sources, k - 1, patterns),
                     trees[sources[k]], sources[k], patterns)

\* A variant that never removes the existing copy.
prepare_target_keeping(exists, files, force_flag) == files

\* The target's files once the existing copy has been kept or removed.
prepare_target(exists, files, force_flag) ==
    IF exists /\ force_flag THEN EmptyTree ELSE files

\* _detect_languages: the sorted languages of the files under the target.
detect_languages(files) ==
    LET langs == {guess_language(p) : p \in DOMAIN files} \ {None}
    IN  (IF "cpp" \in langs THEN <<"cpp">> ELSE <<>>) \o
        (IF "python" \in langs THEN <<"python">> ELSE <<>>)

\* The order in which Path.rglob lists the target: here, the sorted order of
\* the paths the model's target can hold.
RglobOrder ==
    << <<"app", "a.py">>, <<"app", "b.py">>, <<"app", "d.py">>, <<"app", "r.md">>,
       <<"docs", "e.py">>, <<"docs", "r.md">> >>

\* iter_source_files: the files of the target with a source suffix.
iter_source_files(files) ==
    SelectSeq(RglobOrder,
              LAMBDA p : p \in DOMAIN files /\ suffix(p[Len(p)]) \in SOURCE_SUFFIXES)

RECURSIVE chunker_chunk_repository(_, _, _, _)
\* TreeSitterChunker.chunk_repository over the listed files, from file k on.
chunker_chunk_repository(paths_, files, k, parsed) ==
    IF k > Len(paths_) THEN <<>>
    ELSE (IF guess_language(paths_[k]) = None THEN <<>>
          ELSE chunk_file(WorkspaceRoot \o <<RepoName>> \o paths_[k], files[paths_[k]],
                          guess_language(paths_[k]), parsed,
                          max_lines_per_chunk, max_chars_per_chunk))
         \o chunker_chunk_repository(paths_, files, k + 1, parsed)

\* code2prompt's heuristics.extract_structure(content).primary_symbol.
hint_symbol(content) == IF IsBlank(content) THEN None ELSE "hint"

apply_code2prompt_heuristics(chunks_, available) ==
    IF ~available THEN chunks_
    ELSE [i \in 1..Len(chunks_) |->
             [chunks_[i] EXCEPT !.symbol =
                 IF chunks_[i].symbol # None THEN chunks_[i].symbol
                 ELSE hint_symbol(chunks_[i].content)]]

\* RepositoryIngestionManager.chunk_repository
chunk_repository(files, parsed, refine) ==
    apply_code2prompt_heuristics(
        chunker_chunk_repository(iter_source_files(files), files, 1, parsed),
        refine)

(***************************************************************************)
(* IndexerService helpers                                                  *)
(***************************************************************************)
RECURSIVE path_str(_)
\* str(path) of a relative path: the components joined by "/".
path_str(p) ==
    IF p = <<>> THEN <<>>
    ELSE IF Len(p) = 1 THEN <<p[1]>>
         ELSE <<p[1], "/">> \o path_str(Tail(p))

\* md5(...).hexdigest(), taken to be free of collisions: the digest stands
\* for the string digested.
md5_hexdigest(s) == [md5 |-> s]

\* A variant that mixes the number of the run into the digest.
make_chunk_id_salted(repo, path, start, end) ==
    md5_hexdigest(<<repo, ":", "/">> \o path_str(path) \o
                  <<":", ToString(start), ":", ToString(end), ":", ToString(runs)>>)

\* _make_chunk_id: the digest of f"{repo}:{path}:{start}:{end}".
make_chunk_id(repo, path, start, end) ==
    md5_hexdigest(<<repo, ":", "/">> \o path_str(path) \o
                  <<":", ToString(start), ":", ToString(end)>>)

\* A variant that takes the configured size as it is.
configured_batch_size(size) == size

\* _embedding_batch_size / the upsert's batch size: max(1, configured).
effective_batch_size(size) == Max(1, size)

\* embed_documents of the embedding client: one vector per text, in order
\* (the test suite's DummyEmbedding).
embed_documents(batch) == [i \in 1..Len(batch) |-> <<Len(batch[i])>>]

\* The batch of one loop iteration: items[start : start + batch_size].
batch_slice(items, start, size) == Slice(items, start, start + size)

\* relative_to(metadata.path): the path below the workspace target.
relative_to_target(path) == SubSeq(path, Len(WorkspaceRoot) + 2, Len(path))

make_payload(repo, chunk, vector) ==
    [id       |-> make_chunk_id(repo, chunk.path, chunk.start_line, chunk.end_line),
     text     |-> chunk.content,
     vector   |-> vector,
     metadata |-> [repo       |-> repo,
                   path       |-> path_str(relative_to_target(chunk.path)),
                   language   |-> chunk.language,
                   start_line |-> chunk.start_line,
                   end_line   |-> chunk.end_line,
                   symbol     |-> chunk.symbol]]

\* A variant whose loop stops one pair early.
build_payloads_dropping_last(repo, chunks_, vectors_) ==
    [i \in 1..(Min(Len(chunks_), Len(vectors_)) - 1) |->
        make_payload(repo, chunks_[i], vectors_[i])]

\* for chunk, vector in zip(chunks, vectors): one payload per pair.
build_payloads(repo, chunks_, vectors_) ==
    [i \in 1..Min(Len(chunks_), Len(vectors_)) |-> make_payload(repo, chunks_[i], vectors_[i])]

(***************************************************************************)
(* MilvusVectorStore helpers                                               *)
(***************************************************************************)
\* The row written for one payload: the columns of the collection's schema.
entity(payload) ==
    [id        |-> payload.id,
     repo      |-> payload.metadata.repo,
     path      |-> payload.metadata.path,
     language  |-> payload.metadata.language,
     text      |-> payload.text,
     embedding |-> payload.vector,
     metadata  |-> payload.metadata]

RECURSIVE collection_upsert(_, _)
\* Collection.upsert(batch): insert-or-replace by primary key, row by row.
collection_upsert(rows, batch) ==
    IF batch = <<>> THEN rows
    ELSE collection_upsert(
             (batch[1].id :> entity(batch[1])) @@ rows, Tail(batch))

(***************************************************************************)
(* RepositoryRegistry helpers                                              *)
(***************************************************************************)
repository_record(metadata, chunk_count) ==
    [name |-> metadata.name, languages |-> metadata.languages, chunk_count |-> chunk_count]

\* self._records[record.name] = record
records_with(recs, record) == (record.name :> record) @@ recs

(***************************************************************************)
(* Telemetry (api/telemetry.py).                                           *)
(***************************************************************************)
history_size == 2

IngestStats == [count |-> 0, failures |-> 0, total_duration_ms |-> 0]
QueryStats == [count |-> 0, failures |-> 0, total_duration_ms |-> 0, fallbacks |-> 0]

\* Telemetry.__init__
NewTelemetry == [ingest |-> IngestStats, query |-> QueryStats, history |-> <<>>]

\* deque(maxlen=history_size).appendleft(event)
appendleft(history, event) == Slice(<<event>> \o history, 0, history_size)

\* The statements of record_ingest under the lock.
record_ingest(t, duration_ms, ok) ==
    [t EXCEPT
        !.history = appendleft(@, [kind |-> "ingest", ok |-> ok,
                                   duration_ms |-> duration_ms]),
        !.ingest = [@ EXCEPT !.count = @ + 1,
                             !.total_duration_ms = @ + duration_ms,
                             !.failures = IF ~ok THEN @ + 1 ELSE @]]

\* The statements of record_query under the lock.
record_query(t, duration_ms, ok, used_fallback) ==
    [t EXCEPT
        !.history = appendleft(@, [kind |-> "query", ok |-> ok,
                                   duration_ms |-> duration_ms]),
        !.query = [@ EXCEPT !.count = @ + 1,
                            !.total_duration_ms = @ + duration_ms,
                            !.failures = IF ~ok THEN @ + 1 ELSE @,
                            !.fallbacks = IF used_fallback THEN @ + 1 ELSE @]]

\* average_duration_ms(): total / count, kept as the exact fraction
\* <<numerator, denominator>>; 0.0 when count is 0.
average_duration_ms(stats) ==
    IF stats.count # 0 THEN <<stats.total_duration_ms, stats.count>> ELSE <<0, 1>>

\* _record_ingest_telemetry
record_ingest_telemetry(t, enabled, duration_ms, ok) ==
    IF ~enabled THEN t ELSE record_ingest(t, duration_ms, ok)

\* _record_query_telemetry
record_query_telemetry(t, enabled, duration_ms, ok, used_fallback) ==
    IF ~enabled THEN t ELSE record_query(t, duration_ms, ok, used_fallback)

api_vars == <<jobs, direct, responses, telemetry_enabled, telemetry, snap, snapshots>>
chunker_vars == <<chunker, file_text, segments_out, chunks_out>>
\* What no step of index_repository changes.
env_vars == <<grammar_ok, code2prompt, ignore_dirs, chunker_vars, api_vars>>
fs_vars == <<disk, edits, target_exists, target_files>>
store_vars == <<connected, collection, store>>
registry_vars == <<records, registry_file>>
run_vars == <<pc, runs, paths, force, stages, repo_metadata, chunks, batch_size,
              loop_start, vectors,
              payloads, embed_events, upsert_calls, upsert_events, inserted,
              upsert_success, upsert_raised, connect_failed, register_calls, result,
              exc, run_start, previous>>
vars == <<env_vars, fs_vars, store_vars, registry_vars, run_vars>>

EmptyRows == [i \in {} |-> 0]

Report(done, total) == [kind |-> "report", done |-> done, total |-> total, batch |-> <<>>]
Call(kind, batch) == [kind |-> kind, done |-> 0, total |-> 0, batch |-> batch]

\* What a later run is compared with, taken when index_repository returns.
run_summary ==
    [force     |-> force,
     paths     |-> paths,
     tree      |-> run_start.tree,
     grown     |-> run_start.target,
     ids       |-> [i \in 1..Len(payloads) |-> payloads[i].id],
     coords    |-> [i \in 1..Len(chunks) |->
                       <<chunks[i].path, chunks[i].start_line, chunks[i].end_line>>],
     clean     |-> ~upsert_raised /\ ~connect_failed,
     store_ids |-> DOMAIN store]

\* No /telemetry request in hand.
NoSnapshot == [at |-> "idle"]

\* The API as the module is imported: no job, nothing recorded.
ApiAtRest ==
    /\ jobs = <<>>
    /\ direct = <<>>
    /\ responses = <<>>
    /\ telemetry_enabled = TRUE
    /\ telemetry = NewTelemetry
    /\ snap = NoSnapshot
    /\ snapshots = <<>>

\* The chunker of the ingestion manager, at rest.
ManagerChunker ==
    /\ chunker = [max_lines_per_chunk |-> max_lines_per_chunk,
                  max_chars_per_chunk |-> max_chars_per_chunk]
    /\ file_text = <<>>
    /\ segments_out = <<>>
    /\ chunks_out = <<>>

Init ==
    /\ ApiAtRest
    /\ ManagerChunker
    /\ disk = (SourceDir :> InitialTree) @@ (DocsDir :> DocsTree)
    /\ edits = 0
    /\ target_exists = FALSE
    /\ target_files = EmptyTree
    /\ grammar_ok \in BOOLEAN
    \* the optional code2prompt package is not installed
    /\ code2prompt = FALSE
    \* index_repository is called without ignore_dirs
    /\ ignore_dirs = <<>>
    \* IndexerService.__init__ with auto_connect: _connected = _ensure_connection()
    /\ connected \in BOOLEAN
    /\ collection = connected
    /\ store = EmptyRows
    /\ records = EmptyRows
    /\ registry_file = EmptyRows
    /\ pc = "idle"
    /\ runs = 0
    /\ paths = <<>>
    /\ force = FALSE
    /\ stages = <<>>
    /\ repo_metadata = <<>>
    /\ chunks = <<>>
    /\ batch_size = 0
    /\ loop_start = 0
    /\ vectors = <<>>
    /\ payloads = <<>>
    /\ embed_events = <<>>
    /\ upsert_calls = 0
    /\ upsert_events = <<>>
    /\ inserted = 0
    /\ upsert_success = FALSE
    /\ upsert_raised = FALSE
    /\ connect_failed = FALSE
    /\ register_calls = <<>>
    /\ result = <<>>
    /\ exc = None
    /\ run_start = [records |-> EmptyRows, registry_file |-> EmptyRows,
                    store |-> EmptyRows, tree |-> EmptyTree, target |-> EmptyTree,
                    target_exists |-> FALSE]
    /\ previous = <<>>

Idle == pc \in {"idle", "returned", "raised"}

\* The user rewrites one file of the source directory between two runs.
EditSources ==
    /\ Idle
    /\ edits < MaxEdits
    /\ \E e \in EditChoices :
          /\ disk[SourceDir][e[1]] # e[2]
          /\ disk' = [disk EXCEPT ![SourceDir] = (e[1] :> e[2]) @@ @]
    /\ edits' = edits + 1
    /\ UNCHANGED <<target_exists, target_files, env_vars, store_vars, registry_vars,
                   run_vars>>

\* index_repository is entered: cb.stage("copy_started").
StartRun ==
    /\ Idle
    /\ runs < MaxRuns
    /\ runs' = runs + 1
    /\ paths' \in PathsChoices
    /\ force' \in BOOLEAN
    /\ stages' = <<"copy_started">>
    /\ pc' = "copy"
    /\ repo_metadata' = <<>>
    /\ chunks' = <<>>
    /\ batch_size' = 0
    /\ loop_start' = 0
    /\ vectors' = <<>>
    /\ payloads' = <<>>
    /\ embed_events' = <<>>
    /\ upsert_calls' = 0
    /\ upsert_events' = <<>>
    /\ inserted' = 0
    /\ upsert_success' = FALSE
    /\ upsert_raised' = FALSE
    /\ connect_failed' = FALSE
    /\ register_calls' = <<>>
    /\ result' = <<>>
    /\ exc' = None
    /\ run_start' = [records |-> records, registry_file |-> registry_file,
                     store |-> store,
                     tree |-> IF paths' # <<>> /\ paths'[1] \in DOMAIN disk
                              THEN disk[paths'[1]] ELSE EmptyTree,
                     target |-> target_files,
                     target_exists |-> target_exists]
    /\ previous' = IF pc = "returned" THEN <<run_summary>> ELSE <<>>
    /\ UNCHANGED <<env_vars, fs_vars, store_vars, registry_vars>>

\* The stage tags index_repository reports between two steps.
copy_done_tags == <<"copy_completed", "chunk_started">>
chunk_done_tags == <<"chunk_completed", "embedding_started">>

\* A variant that forgets to report embedding_completed.
embed_done_tags_skipping == <<"upsert_started">>

embed_done_tags == <<"embedding_completed", "upsert_started">>

upsert_stage_tag(success) == IF success THEN "upsert_completed" ELSE "upsert_failed"

\* A variant that wraps whatever a step raised in a generic error.
RaiseWrapped(e) ==
    /\ pc' = "raised"
    /\ exc' = "RuntimeError"

\* An exception leaves index_repository unchanged.
Raise(e) ==
    /\ pc' = "raised"
    /\ exc' = e

\* A variant without the try/except around upsert_embeddings.
UpsertRaisedPropagates ==
    /\ upsert_raised' = TRUE
    /\ pc' = "raised"
    /\ exc' = "MilvusException"

\* except Exception around upsert_embeddings: logged, the run goes on.
UpsertRaised ==
    /\ upsert_raised' = TRUE
    /\ pc' = "stage"
    /\ exc' = exc

\* A variant in which connect()'s exception is not caught.
ConnectFailedRaises ==
    /\ connect_failed' = TRUE
    /\ upsert_success' = upsert_success
    /\ pc' = "raised"
    /\ exc' = "MilvusException"

\* _ensure_connection returned False: the else branch skips the upsert.
ConnectFailed ==
    /\ connect_failed' = TRUE
    /\ upsert_success' = TRUE
    /\ pc' = "stage"
    /\ exc' = exc

\* A variant that registers the repository before the upsert stage.
AtRegisterEarly == pc \in {"register", "connect"}

\* registry.register is the statement after the terminal cb.stage call.
AtRegister == pc = "register"

\* A variant that assigns instead of accumulating.
inserted_reset(count, batch) == Len(batch)

\* inserted += len(batch)
inserted_after(count, batch) == count + Len(batch)

\* A variant that creates the target directory before it looks at the sources.
IngestRejectedAfterMkdir ==
    /\ \/ /\ paths = <<>>
          /\ Raise("ValueError")
       \/ /\ paths # <<>>
          /\ \E i \in 1..Len(paths) : paths[i] \notin DOMAIN disk
          /\ Raise("FileNotFoundError")
    /\ target_exists' = TRUE
    /\ UNCHANGED <<target_files, stages, repo_metadata>>

\* ingest_sources up to target = ...: the checks of the sources.
IngestRejected ==
    /\ \/ /\ paths = <<>>
          /\ Raise("ValueError")
       \/ /\ paths # <<>>
          /\ \E i \in 1..Len(paths) : paths[i] \notin DOMAIN disk
          /\ Raise("FileNotFoundError")
    /\ UNCHANGED <<target_exists, target_files, stages, repo_metadata>>

\* ingest_sources from target = ... on: rmtree if forced, mkdir, the copy loop.
IngestCopied ==
    /\ paths # <<>>
    /\ \A i \in 1..Len(paths) : paths[i] \in DOMAIN disk
    /\ target_exists' = TRUE
    /\ \/ /\ target_files' =
                copy_sources(prepare_target(target_exists, target_files, force),
                             disk, paths, Len(paths), ignore_patterns(ignore_dirs))
          /\ repo_metadata' =
                << [name |-> RepoName, path |-> WorkspaceRoot \o <<RepoName>>,
                    languages |-> detect_languages(target_files')] >>
          /\ stages' = stages \o copy_done_tags
          /\ pc' = "chunk"
          /\ exc' = exc
       \* an I/O error while copying source k + 1
       \/ /\ \E k \in 0..(Len(paths) - 1) :
                target_files' =
                    copy_sources(prepare_target(target_exists, target_files, force),
                                 disk, paths, k, ignore_patterns(ignore_dirs))
          /\ Raise("OSError")
          /\ UNCHANGED <<stages, repo_metadata>>

\* ingest_sources, then cb.stage("copy_completed") and cb.stage("chunk_started").
IngestSources ==
    /\ pc = "copy"
    /\ \/ IngestRejected
       \/ IngestCopied
    /\ UNCHANGED <<disk, edits, env_vars, store_vars, registry_vars, runs, paths,
                   force, chunks, batch_size, loop_start, vectors, payloads,
                   embed_events,
                   upsert_calls, upsert_events, inserted, upsert_success, upsert_raised,
                   connect_failed, register_calls, result, run_start, previous>>

\* chunk_repository, then cb.stage("chunk_completed") and
\* cb.stage("embedding_started").
ChunkRepository ==
    /\ pc = "chunk"
    /\ \/ /\ chunks' = chunk_repository(target_files, grammar_ok, code2prompt)
          /\ stages' = stages \o chunk_done_tags
          /\ pc' = "embed"
          /\ exc' = exc
       \* a file of the copy cannot be read
       \/ /\ Raise("PermissionError")
          /\ UNCHANGED <<chunks, stages>>
    /\ UNCHANGED <<env_vars, fs_vars, store_vars, registry_vars, runs, paths, force,
                   repo_metadata, batch_size, loop_start, vectors, payloads,
                   embed_events,
                   upsert_calls, upsert_events, inserted, upsert_success, upsert_raised,
                   connect_failed, register_calls, result, run_start, previous>>

contents == [i \in 1..Len(chunks) |-> chunks[i].content]

\* _build_payloads up to its loop: progress(0, total), and batch_size from
\* the setting embedding_batch_size when there is something to embed.
BuildPayloadsStart ==
    /\ pc = "embed"
    /\ embed_events' = <<Report(0, Len(contents))>>
    /\ IF Len(contents) # 0
       THEN \E embedding_batch_size \in 0..MaxBatch :
               batch_size' = effective_batch_size(embedding_batch_size)
       ELSE batch_size' = batch_size
    /\ loop_start' = 0
    /\ pc' = "embed_loop"
    /\ UNCHANGED <<env_vars, fs_vars, store_vars, registry_vars, runs, paths, force,
                   stages, repo_metadata, chunks, vectors, payloads, upsert_calls,
                   upsert_events, inserted, upsert_success, upsert_raised,
                   connect_failed, register_calls, result, exc, run_start, previous>>

\* One iteration of _build_payloads' loop over range(0, total, batch_size).
EmbedBatch ==
    /\ pc = "embed_loop"
    /\ loop_start < Len(contents)
    /\ LET batch == batch_slice(contents, loop_start, batch_size)
       IN  \/ /\ vectors' = vectors \o embed_documents(batch)
              /\ embed_events' = embed_events \o
                    <<Call("embed", batch), Report(Len(vectors'), Len(contents))>>
              /\ loop_start' = loop_start + batch_size
              /\ UNCHANGED <<pc, exc>>
           \* embed_documents raises
           \/ /\ embed_events' = Append(embed_events, Call("embed", batch))
              /\ Raise("EmbeddingError")
              /\ UNCHANGED <<vectors, loop_start>>
    /\ UNCHANGED <<env_vars, fs_vars, store_vars, registry_vars, runs, paths, force,
                   stages, repo_metadata, chunks, batch_size, payloads, upsert_calls,
                   upsert_events, inserted, upsert_success, upsert_raised,
                   connect_failed, register_calls, result, run_start, previous>>

\* The rest of _build_payloads, then cb.stage("embedding_completed") and
\* cb.stage("upsert_started").
BuildPayloadsFinish ==
    /\ pc = "embed_loop"
    /\ loop_start >= Len(contents)
    /\ payloads' = build_payloads(repo_metadata[1].name, chunks, vectors)
    /\ stages' = stages \o embed_done_tags
    /\ batch_size' = 0
    /\ loop_start' = 0
    /\ embed_events' = <<>>
    /\ pc' = "connect"
    /\ UNCHANGED <<env_vars, fs_vars, store_vars, registry_vars, runs, paths, force,
                   repo_metadata, chunks, vectors, upsert_calls, upsert_events,
                   inserted, upsert_success, upsert_raised, connect_failed,
                   register_calls, result, exc, run_start, previous>>

\* if self._connected or self._ensure_connection(): ... else: ...
EnsureConnection ==
    /\ pc = "connect"
    /\ \/ /\ connected
          /\ pc' = "upsert"
          /\ UNCHANGED <<collection, upsert_success, connect_failed, exc>>
       \* connect() succeeds: the store holds its collection
       \/ /\ ~connected
          /\ collection' = TRUE
          /\ pc' = "upsert"
          /\ UNCHANGED <<upsert_success, connect_failed, exc>>
       \* connect() raises: the upsert is skipped
       \/ /\ ~connected
          /\ ConnectFailed
          /\ UNCHANGED collection
    /\ UNCHANGED <<env_vars, fs_vars, connected, store, registry_vars, runs, paths,
                   force, stages, repo_metadata, chunks, batch_size, loop_start,
                   vectors, payloads,
                   embed_events, upsert_calls, upsert_events, inserted, upsert_raised,
                   register_calls, result, run_start, previous>>

\* upsert_embeddings(payloads, progress) up to its loop.  The collection is
\* there: the call is reached only once connect() has returned.
UpsertStart ==
    /\ pc = "upsert"
    /\ collection
    /\ upsert_calls' = upsert_calls + 1
    /\ upsert_events' = <<Report(0, Len(payloads))>>
    /\ IF Len(payloads) = 0
       THEN /\ upsert_success' = TRUE
            /\ pc' = "stage"
            /\ batch_size' = batch_size
            /\ loop_start' = loop_start
       ELSE /\ upsert_success' = upsert_success
            /\ pc' = "upsert_loop"
            /\ \E milvus_upsert_batch_size \in 0..MaxBatch :
                  batch_size' = effective_batch_size(milvus_upsert_batch_size)
            /\ loop_start' = 0
    /\ UNCHANGED <<env_vars, fs_vars, store_vars, registry_vars, runs, paths, force,
                   stages, repo_metadata, chunks, vectors, payloads, embed_events,
                   inserted, upsert_raised, connect_failed, register_calls, result,
                   exc, run_start, previous>>

\* One iteration of upsert_embeddings' loop over range(0, total, batch_size);
\* after the last one the call returns and index_repository sets
\* upsert_success.
UpsertBatch ==
    /\ pc = "upsert_loop"
    /\ LET batch == batch_slice(payloads, loop_start, batch_size)
       IN  \/ /\ store' = collection_upsert(store, batch)
              /\ inserted' = inserted_after(inserted, batch)
              /\ upsert_events' = upsert_events \o
                    <<Call("write", batch), Report(inserted', Len(payloads))>>
              /\ loop_start' = loop_start + batch_size
              /\ IF loop_start' >= Len(payloads)
                 THEN upsert_success' = TRUE /\ pc' = "stage"
                 ELSE upsert_success' = upsert_success /\ pc' = pc
              /\ UNCHANGED <<upsert_raised, exc>>
           \* Collection.upsert raises: caught by index_repository
           \/ /\ upsert_events' = Append(upsert_events, Call("write_failed", batch))
              /\ UpsertRaised
              /\ UNCHANGED <<store, inserted, upsert_success, loop_start>>
    /\ UNCHANGED <<env_vars, fs_vars, connected, collection, registry_vars, runs,
                   paths, force, stages, repo_metadata, chunks, batch_size, vectors,
                   payloads, embed_events, upsert_calls, connect_failed, register_calls,
                   result, run_start, previous>>

\* cb.stage("upsert_completed" if upsert_success else "upsert_failed")
ReportUpsertStage ==
    /\ pc = "stage"
    /\ stages' = Append(stages, upsert_stage_tag(upsert_success))
    /\ upsert_events' = <<>>
    /\ inserted' = 0
    /\ batch_size' = 0
    /\ loop_start' = 0
    /\ pc' = "register"
    /\ UNCHANGED <<env_vars, fs_vars, store_vars, registry_vars, runs, paths, force,
                   repo_metadata, chunks, vectors, payloads, embed_events, upsert_calls,
                   upsert_success, upsert_raised, connect_failed, register_calls, result,
                   exc, run_start, previous>>

indexing_result ==
    [repository         |-> repo_metadata[1],
     chunk_count        |-> Len(chunks),
     embeddings_indexed |-> Len(payloads),
     milvus_collection  |-> "semcode_chunks"]

\* registry.register(record), then return IndexingResult(...).
RegisterAndReturn ==
    /\ AtRegister
    /\ LET record == repository_record(repo_metadata[1], Len(chunks))
       IN  /\ register_calls' = Append(register_calls, record)
           /\ records' = records_with(records, record)
           /\ \/ /\ registry_file' = records'
                 /\ result' = <<indexing_result>>
                 /\ pc' = "returned"
                 /\ exc' = exc
              \* _persist raises: the registry file cannot be written
              \/ /\ Raise("RegistryError")
                 /\ UNCHANGED <<registry_file, result>>
    /\ UNCHANGED <<env_vars, fs_vars, store_vars, runs, paths, force, stages,
                   repo_metadata, chunks, batch_size, loop_start, vectors, payloads,
                   embed_events,
                   upsert_calls, upsert_events, inserted, upsert_success, upsert_raised,
                   connect_failed, run_start, previous>>

Next ==
    \/ EditSources
    \/ StartRun
    \/ IngestSources
    \/ ChunkRepository
    \/ BuildPayloadsStart
    \/ EmbedBatch
    \/ BuildPayloadsFinish
    \/ EnsureConnection
    \/ UpsertStart
    \/ UpsertBatch
    \/ ReportUpsertStage
    \/ RegisterAndReturn

Spec == Init /\ [][Next]_vars

(***************************************************************************)
(* ingest_sources on its own: one call, entered from index_repository, in  *)
(* a workspace that earlier ingestions have left in some state.            *)
(***************************************************************************)
BuildDir == <<"u", "build">>
BuildTree == (<<"a.py">> :> TextB)

\* Another folder named app, elsewhere.
OtherAppDir == <<"v", "app">>
OtherAppTree == (<<"d.py">> :> TextB)

\* What an earlier ingestion of app and docs, since changed, has left.
StaleCopy ==
    (<<"app", "a.py">> :> TextB) @@ (<<"app", "e.py">> :> TextEmpty) @@
    (<<"docs", "r.md">> :> TextB)

TargetChoices ==
    { [exists |-> FALSE, files |-> EmptyTree],
      [exists |-> TRUE, files |-> EmptyTree],
      [exists |-> TRUE, files |-> StaleCopy] }

IngestPathsChoices ==
    { <<>>, <<MissingSource>>, <<SourceDir, MissingSource>>, <<SourceDir>>,
      <<DocsDir>>, <<SourceDir, DocsDir>>, <<BuildDir>>, <<DocsDir, BuildDir>>,
      <<SourceDir, OtherAppDir>> }

IgnoreChoices == { <<>>, <<" b.py ">>, <<"*.md", " ", ".git">>, <<"docs">> }

IngestInit ==
    /\ ApiAtRest
    /\ ManagerChunker
    /\ disk = (SourceDir :> InitialTree) @@ (DocsDir :> DocsTree) @@
              (BuildDir :> BuildTree) @@ (OtherAppDir :> OtherAppTree)
    /\ edits = 0
    /\ \E t \in TargetChoices :
          /\ target_exists = t.exists
          /\ target_files = t.files
    /\ grammar_ok = FALSE
    /\ code2prompt = FALSE
    /\ ignore_dirs \in IgnoreChoices
    /\ connected = TRUE
    /\ collection = TRUE
    /\ store = EmptyRows
    /\ records = EmptyRows
    /\ registry_file = EmptyRows
    /\ pc = "copy"
    /\ runs = 1
    /\ paths \in IngestPathsChoices
    /\ force \in BOOLEAN
    /\ stages = <<"copy_started">>
    /\ repo_metadata = <<>>
    /\ chunks = <<>>
    /\ batch_size = 0
    /\ loop_start = 0
    /\ vectors = <<>>
    /\ payloads = <<>>
    /\ embed_events = <<>>
    /\ upsert_calls = 0
    /\ upsert_events = <<>>
    /\ inserted = 0
    /\ upsert_success = FALSE
    /\ upsert_raised = FALSE
    /\ connect_failed = FALSE
    /\ register_calls = <<>>
    /\ result = <<>>
    /\ exc = None
    /\ run_start = [records |-> EmptyRows, registry_file |-> EmptyRows,
                    store |-> EmptyRows,
                    tree |-> IF paths # <<>> /\ paths[1] \in DOMAIN disk
                             THEN disk[paths[1]] ELSE EmptyTree,
                    target |-> target_files,
                    target_exists |-> target_exists]
    /\ previous = <<>>

IngestNext == IngestSources

IngestSpec == IngestInit /\ [][IngestNext]_vars


(***************************************************************************)
(* Properties of index_repository                                          *)
(***************************************************************************)
StageTags ==
    <<"copy_started", "copy_completed", "chunk_started", "chunk_completed",
      "embedding_started", "embedding_completed", "upsert_started">>

TerminalTags == {"upsert_completed", "upsert_failed"}

\* The run has ended: index_repository returned or raised.
RunEnded == pc \in {"returned", "raised"}

\* C1: the tags given to the stage callback are, in this order, a prefix of
\* the seven tags copy_started .. upsert_started, followed by at most one
\* terminal tag (upsert_completed or upsert_failed); no tag is repeated or
\* out of order, and a run that returned has reported all eight.
C1_StageSequence ==
    /\ Len(stages) <= Len(StageTags) + 1
    /\ \A i \in 1..Len(stages) :
          IF i <= Len(StageTags) THEN stages[i] = StageTags[i]
          ELSE stages[i] \in TerminalTags
    /\ pc = "returned" => Len(stages) = Len(StageTags) + 1

C1_Witness ==
    /\ pc = "returned"
    /\ Len(stages) = 8
    /\ stages[8] = "upsert_failed"

\* C2: when the copy step, the chunk step or an embedding batch raises, that
\* exception leaves index_repository, no tag of a later stage has been
\* reported, upsert_embeddings was not called and the store holds what it
\* held before the run; nothing is registered and nothing is returned.
C2_FatalStagesPropagate ==
    (pc = "raised" /\ Len(stages) <= Len(StageTags)) =>
        /\ upsert_calls = 0
        /\ store = run_start.store
        /\ payloads = <<>>
        /\ register_calls = <<>>
        /\ result = <<>>
        /\ \/ /\ exc \in {"ValueError", "FileNotFoundError", "OSError"}
              /\ stages = SubSeq(StageTags, 1, 1)
           \/ /\ exc = "PermissionError"
              /\ stages = SubSeq(StageTags, 1, 3)
           \/ /\ exc = "EmbeddingError"
              /\ stages = SubSeq(StageTags, 1, 5)

\* An embedding batch raised after an earlier batch had been embedded.
C2_Witness ==
    /\ pc = "raised"
    /\ exc = "EmbeddingError"
    /\ Len(vectors) > 0
    /\ Len(vectors) < Len(chunks)

\* C3: when upsert_embeddings raised, its exception does not leave
\* index_repository: the terminal tag is upsert_failed, register is called
\* with the number of chunks of the run, and the result returned carries that
\* chunk_count.  (The only exception such a run can still end with is the
\* registry's own, raised by register.)
C3_UpsertFailureNonFatal ==
    upsert_raised =>
        /\ ~upsert_success
        /\ pc \in {"stage", "register", "returned", "raised"}
        /\ Len(stages) = 8 => stages[8] = "upsert_failed"
        /\ pc = "raised" => exc = "RegistryError"
        /\ RunEnded =>
              /\ Len(stages) = 8
              /\ Len(register_calls) = 1
              /\ register_calls[1].name = RepoName
              /\ register_calls[1].chunk_count = Len(chunks)
        /\ pc = "returned" =>
              /\ result[1].chunk_count = Len(chunks)
              /\ records[RepoName].chunk_count = Len(chunks)
              /\ registry_file = records

\* The upsert raised after a first batch had been written, and the run returned.
C3_Witness ==
    /\ pc = "returned"
    /\ upsert_raised
    /\ Len(chunks) > 1
    /\ store # run_start.store

\* C4 (as claimed): a degraded run with chunks returns embeddings_indexed
\* equal to 0 or below chunk_count.
C4_DegradedRunIsVisible ==
    (pc = "returned" /\ Len(chunks) > 0 /\ (connect_failed \/ upsert_raised)) =>
        \/ result[1].embeddings_indexed = 0
        \/ result[1].embeddings_indexed < result[1].chunk_count

\* C5: when the service is not connected and connect() raises, the
\* exception does not leave index_repository, upsert_embeddings is not
\* called and nothing is written; the run goes on to register the repository
\* and returns a result.
C5_ConnectFailureIsSoft ==
    connect_failed =>
        /\ ~connected
        /\ upsert_calls = 0
        /\ upsert_events = <<>>
        /\ store = run_start.store
        /\ pc \in {"stage", "register", "returned", "raised"}
        /\ pc = "raised" => exc = "RegistryError"
        /\ RunEnded =>
              /\ Len(register_calls) = 1
              /\ register_calls[1].chunk_count = Len(chunks)
        /\ pc = "returned" =>
              /\ Len(result) = 1
              /\ RepoName \in DOMAIN records
              /\ registry_file = records

C5_Witness ==
    /\ pc = "returned"
    /\ connect_failed
    /\ Len(chunks) > 0

\* C6: register is called at most once in a run and only after the terminal
\* tag has been reported; as long as it has not been called (so in every run
\* that raised before that point) the registry's records and its file are
\* what they were when the run started.
C6_RegisterOnceAndLast ==
    /\ Len(register_calls) <= 1
    /\ register_calls # <<>> =>
          /\ Len(stages) = 8
          /\ stages[8] \in TerminalTags
    /\ register_calls = <<>> =>
          /\ records = run_start.records
          /\ registry_file = run_start.registry_file

\* A run over changed sources raised before the upsert stage while the
\* registry held the record of an earlier run.
C6_Witness ==
    /\ pc = "raised"
    /\ Len(stages) < 8
    /\ RepoName \in DOMAIN run_start.registry_file
    /\ Len(chunks) > 0
    /\ Len(chunks) # run_start.registry_file[RepoName].chunk_count

RECURSIVE Batches(_, _)
\* The batches of the calls of one kind in an event log, concatenated.
Batches(events, kind) ==
    IF events = <<>> THEN <<>>
    ELSE (IF events[1].kind = kind THEN events[1].batch ELSE <<>>)
         \o Batches(Tail(events), kind)

\* Neither the connection nor the upsert failed.
CleanRun == ~upsert_raised /\ ~connect_failed

\* C7: once the embedding stage is complete there is exactly one payload per
\* chunk, in chunk order: payload i has chunk i's content as text, the vector
\* of that text, chunk i's line range and language in its metadata and the id
\* made from the repository name and chunk i's path and line range; in a
\* clean run the batches written to the store are, concatenated, exactly
\* these payloads, every id is in the store, and the repository is registered.
C7_OnePayloadPerChunk ==
    /\ Len(stages) >= 7 =>
          /\ Len(payloads) = Len(chunks)
          /\ \A i \in 1..Len(chunks) :
                /\ payloads[i].text = chunks[i].content
                /\ payloads[i].vector = embed_documents(<<chunks[i].content>>)[1]
                /\ payloads[i].metadata.start_line = chunks[i].start_line
                /\ payloads[i].metadata.end_line = chunks[i].end_line
                /\ payloads[i].metadata.language = chunks[i].language
                /\ payloads[i].id =
                      make_chunk_id(repo_metadata[1].name, chunks[i].path,
                                    chunks[i].start_line, chunks[i].end_line)
    /\ (pc = "stage" /\ CleanRun) =>
          /\ upsert_calls = 1
          /\ Batches(upsert_events, "write") = payloads
    /\ (pc \in {"stage", "register", "returned"} /\ CleanRun) =>
          \A i \in 1..Len(chunks) :
             /\ payloads[i].id \in DOMAIN store
             /\ \E j \in 1..Len(chunks) : store[payloads[i].id] = entity(payloads[j])
    /\ (pc = "returned" /\ CleanRun) =>
          /\ RepoName \in DOMAIN registry_file
          /\ registry_file[RepoName].chunk_count = Len(chunks)

\* A clean run over several chunks written in more than one batch returned.
C7_Witness ==
    /\ pc = "returned"
    /\ CleanRun
    /\ Len(chunks) > 2
    /\ \E i, j \in 1..Len(chunks) : payloads[i].vector # payloads[j].vector

\* C8: the id depends on nothing but (repo name, path, start_line, end_line).
\* A run with force over the sources of the preceding run with force, left
\* unchanged, yields the same list of ids, and when both runs are clean the
\* store holds the same set of ids after the second as after the first; a
\* chunk whose path and line range occur in the preceding run has the id it
\* had there, whatever was modified in between.
C8_StableIds ==
    (pc = "returned" /\ previous # <<>>) =>
        LET before == previous[1]
            after == run_summary
            same_sources == /\ before.force /\ after.force
                            /\ before.paths = after.paths
                            /\ before.tree = after.tree
        IN  /\ same_sources => after.ids = before.ids
            /\ (same_sources /\ before.clean /\ after.clean) =>
                  after.store_ids = before.store_ids
            /\ \A i \in 1..Len(after.coords) : \A j \in 1..Len(before.coords) :
                  after.coords[i] = before.coords[j] => after.ids[i] = before.ids[j]

\* Two clean runs with force over the same unchanged sources.
C8_Witness ==
    /\ pc = "returned"
    /\ previous # <<>>
    /\ previous[1].force /\ force
    /\ previous[1].paths = paths
    /\ previous[1].tree = run_start.tree
    /\ previous[1].clean /\ CleanRun
    /\ Len(previous[1].ids) > 1

CeilDiv(n, b) == (n + b - 1) \div b

\* C9: the embed_progress callback receives (0, N) before any embed call and
\* one report after each call; the k-th call gets the k-th consecutive slice
\* of at most B texts, B >= 1; the completed values do not decrease and the
\* last one is N when the loop is over, after ceil(N/B) calls; for N = 0 the
\* only event is the report (0, 0).
C9_EmbedProgress ==
    embed_events # <<>> =>
        LET N == Len(contents)
            B == batch_size
            ev == embed_events
        IN  /\ ev[1] = Report(0, N)
            /\ N = 0 => ev = <<Report(0, 0)>>
            /\ N > 0 =>
                  /\ B >= 1
                  /\ Len(ev) <= 1 + 2 * CeilDiv(N, B)
                  /\ \A k \in 1..(Len(ev) \div 2) :
                        /\ ev[2 * k].kind = "embed"
                        /\ ev[2 * k].batch =
                              SubSeq(contents, (k - 1) * B + 1, Min(k * B, N))
                        /\ Len(ev[2 * k].batch) \in 1..B
                        /\ 2 * k + 1 <= Len(ev) =>
                              /\ ev[2 * k + 1] = Report(Min(k * B, N), N)
                              /\ ev[2 * k + 1].done >= ev[2 * k - 1].done
                  /\ (pc = "embed_loop" /\ loop_start >= N) =>
                        /\ Len(ev) = 1 + 2 * CeilDiv(N, B)
                        /\ ev[Len(ev)] = Report(N, N)
                  \* an event log ending with a call is that of a call that raised
                  /\ Len(ev) % 2 = 0 => pc = "raised"

\* Three texts embedded in batches of two: the last batch is short.
C9_Witness ==
    /\ pc = "embed_loop"
    /\ Len(contents) = 3
    /\ batch_size = 2
    /\ loop_start >= Len(contents)
    /\ Len(embed_events) = 5

\* C10: the upsert's progress callback receives (0, N) before any write and
\* (inserted, N) after each batch written, inserted being the number of
\* payloads written so far; the k-th write gets the k-th consecutive slice of
\* at most B payloads, B >= 1; the inserted values increase strictly and end
\* at N when no write fails; a write that fails is the last event, with no
\* report after it; for N = 0 the only event is the report (0, 0).
C10_UpsertProgress ==
    upsert_events # <<>> =>
        LET N == Len(payloads)
            B == batch_size
            ev == upsert_events
        IN  /\ pc \in {"upsert_loop", "stage"}
            /\ ev[1] = Report(0, N)
            /\ N = 0 => ev = <<Report(0, 0)>> /\ store = run_start.store
            /\ N > 0 =>
                  /\ B >= 1
                  /\ \A k \in 1..(Len(ev) \div 2) :
                        /\ ev[2 * k].kind \in {"write", "write_failed"}
                        /\ ev[2 * k].kind = "write_failed" =>
                              2 * k = Len(ev) /\ upsert_raised /\ pc = "stage"
                        /\ ev[2 * k].batch =
                              SubSeq(payloads, (k - 1) * B + 1, Min(k * B, N))
                        /\ Len(ev[2 * k].batch) \in 1..B
                        /\ 2 * k + 1 <= Len(ev) =>
                              /\ ev[2 * k].kind = "write"
                              /\ ev[2 * k + 1].kind = "report"
                              /\ ev[2 * k + 1].total = N
                              /\ ev[2 * k + 1].done =
                                    Len(Batches(SubSeq(ev, 1, 2 * k), "write"))
                              /\ ev[2 * k + 1].done > ev[2 * k - 1].done
                  /\ Len(ev) % 2 = 1 => inserted = ev[Len(ev)].done
                  /\ (pc = "stage" /\ ~upsert_raised) =>
                        /\ Len(ev) = 1 + 2 * CeilDiv(N, B)
                        /\ ev[Len(ev)] = Report(N, N)
                  /\ upsert_raised => ev[Len(ev)].kind = "write_failed"

\* The second batch write failed after the first had been reported.
C10_Witness ==
    /\ pc = "stage"
    /\ upsert_raised
    /\ Len(upsert_events) = 4
    /\ upsert_events[3].done = batch_size
    /\ batch_size = 2

(***************************************************************************)
(* TreeSitterChunker on its own: a chunker with some limits is given a     *)
(* file; _segment_lines and chunk_file are called on it.                   *)
(***************************************************************************)
\* Longest file text, and largest limits, explored.
MaxTextLen == 5
MaxLinesLimit == 2
MaxCharsLimit == 3

MaxCrLen == 3

Alphabet == {"x", " ", NL}

RECURSIVE Texts(_)
\* The texts of at most n characters.
Texts(n) ==
    IF n = 0 THEN {<<>>}
    ELSE Texts(n - 1) \cup
         {Append(t, c) : t \in {u \in Texts(n - 1) : Len(u) = n - 1}, c \in Alphabet}

RECURSIVE TextsOver(_, _)
TextsOver(letters, n) ==
    IF n = 0 THEN {<<>>}
    ELSE TextsOver(letters, n - 1) \cup
         {Append(t, c) : t \in {u \in TextsOver(letters, n - 1) : Len(u) = n - 1},
                         c \in letters}

\* The short texts that hold a carriage return.
CarriageTexts ==
    {t \in TextsOver({"x", NL, CR}, MaxCrLen) : \E i \in 1..Len(t) : t[i] = CR}

ChunkedPath == WorkspaceRoot \o <<RepoName, "app", "a.py">>

ChunkerInit ==
    /\ ApiAtRest
    /\ chunker \in [max_lines_per_chunk : 1..MaxLinesLimit,
                     max_chars_per_chunk : 1..MaxCharsLimit]
    /\ file_text \in Texts(MaxTextLen) \cup CarriageTexts
    /\ segments_out = <<>>
    /\ chunks_out = <<>>
    /\ grammar_ok \in BOOLEAN
    /\ code2prompt = FALSE
    /\ ignore_dirs = <<>>
    /\ disk = (SourceDir :> InitialTree) @@ (DocsDir :> DocsTree)
    /\ edits = 0
    /\ target_exists = FALSE
    /\ target_files = EmptyTree
    /\ connected = TRUE
    /\ collection = TRUE
    /\ store = EmptyRows
    /\ records = EmptyRows
    /\ registry_file = EmptyRows
    /\ pc = "idle"
    /\ runs = 0
    /\ paths = <<>>
    /\ force = FALSE
    /\ stages = <<>>
    /\ repo_metadata = <<>>
    /\ chunks = <<>>
    /\ batch_size = 0
    /\ loop_start = 0
    /\ vectors = <<>>
    /\ payloads = <<>>
    /\ embed_events = <<>>
    /\ upsert_calls = 0
    /\ upsert_events = <<>>
    /\ inserted = 0
    /\ upsert_success = FALSE
    /\ upsert_raised = FALSE
    /\ connect_failed = FALSE
    /\ register_calls = <<>>
    /\ result = <<>>
    /\ exc = None
    /\ run_start = [records |-> EmptyRows, registry_file |-> EmptyRows,
                    store |-> EmptyRows, tree |-> EmptyTree, target |-> EmptyTree,
                    target_exists |-> FALSE]
    /\ previous = <<>>

\* self._segment_lines(lines) on the lines of the file.
SegmentLines ==
    /\ segments_out = <<>>
    /\ segments_out' = << segment_lines(splitlines(file_text),
                                        chunker.max_lines_per_chunk,
                                        chunker.max_chars_per_chunk) >>
    /\ UNCHANGED <<chunker, file_text, chunks_out, grammar_ok, code2prompt,
                   ignore_dirs, api_vars, fs_vars, store_vars, registry_vars,
                   run_vars>>

\* chunker.chunk_file(path, "python") once more, on the same file.
ChunkFileAgain ==
    /\ Len(chunks_out) = 1
    /\ chunks_out' = Append(chunks_out,
                            chunk_file(ChunkedPath, file_text, "python", grammar_ok,
                                       chunker.max_lines_per_chunk,
                                       chunker.max_chars_per_chunk))
    /\ UNCHANGED <<chunker, file_text, segments_out, grammar_ok, code2prompt,
                   ignore_dirs, api_vars, fs_vars, store_vars, registry_vars,
                   run_vars>>

\* chunker.chunk_file(path, "python")
ChunkFile ==
    /\ chunks_out = <<>>
    /\ chunks_out' = << chunk_file(ChunkedPath, file_text, "python", grammar_ok,
                                   chunker.max_lines_per_chunk,
                                   chunker.max_chars_per_chunk) >>
    /\ UNCHANGED <<chunker, file_text, segments_out, grammar_ok, code2prompt,
                   ignore_dirs, api_vars, fs_vars, store_vars, registry_vars,
                   run_vars>>

ChunkerNext ==
    \/ SegmentLines
    \/ ChunkFile
    \/ ChunkFileAgain

ChunkerSpec == ChunkerInit /\ [][ChunkerNext]_vars

(***************************************************************************)
(* chunk_repository on its own: one call, entered from index_repository,   *)
(* over a workspace copy holding two source files.                         *)
(***************************************************************************)
TextBlank == <<" ", NL>>
TextLead == <<NL>> \o X(1) \o <<NL>>

\* The texts a file of the copy can hold.
CopyTexts == {TextA1, TextA2, TextLong, TextB, TextEmpty, TextBlank, TextLead}

\* The copies explored: app/a.py and app/b.py with any of the texts.
CopyChoices ==
    { (<<"app", "a.py">> :> ta) @@ (<<"app", "b.py">> :> tb) :
          ta \in CopyTexts, tb \in CopyTexts }

ChunkRepoInit ==
    /\ ApiAtRest
    /\ ManagerChunker
    /\ disk = (SourceDir :> InitialTree) @@ (DocsDir :> DocsTree)
    /\ edits = 0
    /\ target_exists = TRUE
    /\ target_files \in CopyChoices
    /\ grammar_ok \in BOOLEAN
    /\ code2prompt \in BOOLEAN
    /\ ignore_dirs = <<>>
    /\ connected = TRUE
    /\ collection = TRUE
    /\ store = EmptyRows
    /\ records = EmptyRows
    /\ registry_file = EmptyRows
    /\ pc = "chunk"
    /\ runs = 1
    /\ paths = <<SourceDir>>
    /\ force = FALSE
    /\ stages = <<"copy_started">> \o copy_done_tags
    /\ repo_metadata =
          << [name |-> RepoName, path |-> WorkspaceRoot \o <<RepoName>>,
              languages |-> detect_languages(target_files)] >>
    /\ chunks = <<>>
    /\ batch_size = 0
    /\ loop_start = 0
    /\ vectors = <<>>
    /\ payloads = <<>>
    /\ embed_events = <<>>
    /\ upsert_calls = 0
    /\ upsert_events = <<>>
    /\ inserted = 0
    /\ upsert_success = FALSE
    /\ upsert_raised = FALSE
    /\ connect_failed = FALSE
    /\ register_calls = <<>>
    /\ result = <<>>
    /\ exc = None
    /\ run_start = [records |-> EmptyRows, registry_file |-> EmptyRows,
                    store |-> EmptyRows, tree |-> InitialTree, target |-> EmptyTree,
                    target_exists |-> FALSE]
    /\ previous = <<>>

ChunkRepoNext == ChunkRepository

ChunkRepoSpec == ChunkRepoInit /\ [][ChunkRepoNext]_vars

(***************************************************************************)
(* The job system of the API (api/main.py, api/jobs.py): the handlers of   *)
(* /jobs/ingest and /ingest run on the server's worker threads, and the    *)
(* background task of every job runs on one of them after the response.    *)
(* index_repository is followed here by its stage callbacks and its end.   *)
(***************************************************************************)
\* Most jobs created, /ingest requests accepted and requests refused.
MaxJobs == 2
MaxDirect == 1
MaxRefused == 1
\* Longest duration measured, in ms.
MaxDuration == 2

RepoNames == {RepoName, "lib"}
IncludeChoices == { <<>>, <<SourceDir>>, <<MissingSource>> }
Durations == 1..MaxDuration

\* _resolve_include_paths raises HTTPException(400) unless every folder exists.
resolves(include) == \A i \in 1..Len(include) : include[i] \in DOMAIN disk

\* job_manager.create("ingest", metadata): the job, and its task not started.
\* result is <<>> for None and <<payload>> once set.
create(name, include) ==
    [type |-> "ingest", name |-> name, include |-> include, status |-> "queued",
     stage |-> None, result |-> <<>>, error |-> None, at |-> "queued",
     ended |-> None]

\* job_manager.set_status(job_id, status, stage)
set_status(job, status, stage) == [job EXCEPT !.status = status, !.stage = stage]

\* job_manager.update_stage(job_id, stage)
update_stage(job, stage) == [job EXCEPT !.stage = stage]

\* job_manager.complete(job_id, result)
complete(job, payload) ==
    [job EXCEPT !.status = "completed", !.result = <<payload>>]

\* A variant that keeps the job as it is.
fail_ignored(job, error) == job

\* job_manager.fail(job_id, error)
fail(job, error) == [job EXCEPT !.status = "failed", !.error = error]

\* The tags each stage of index_repository gives to on_stage when it ends
\* well, the stage that follows it, and the exception that can end it.
StageTagsOf ==
    [copy |-> copy_done_tags, chunk |-> chunk_done_tags, embed |-> embed_done_tags]
StageAfter == [copy |-> "chunk", chunk |-> "embed", embed |-> "upsert"]
StageError ==
    [copy |-> "OSError", chunk |-> "PermissionError", embed |-> "EmbeddingError",
     register |-> "RegistryError"]

JobInit ==
    /\ jobs = <<>>
    /\ direct = <<>>
    /\ responses = <<>>
    /\ telemetry_enabled \in BOOLEAN
    /\ telemetry = NewTelemetry
    /\ snap = NoSnapshot
    /\ snapshots = <<>>
    /\ ManagerChunker
    /\ disk = (SourceDir :> InitialTree) @@ (DocsDir :> DocsTree)
    /\ edits = 0
    /\ target_exists = FALSE
    /\ target_files = EmptyTree
    /\ grammar_ok = TRUE
    /\ code2prompt = FALSE
    /\ ignore_dirs = <<>>
    /\ connected = FALSE
    /\ collection = FALSE
    /\ store = EmptyRows
    /\ records = EmptyRows
    /\ registry_file = EmptyRows
    /\ pc = "idle"
    /\ runs = 0
    /\ paths = <<>>
    /\ force = FALSE
    /\ stages = <<>>
    /\ repo_metadata = <<>>
    /\ chunks = <<>>
    /\ batch_size = 0
    /\ loop_start = 0
    /\ vectors = <<>>
    /\ payloads = <<>>
    /\ embed_events = <<>>
    /\ upsert_calls = 0
    /\ upsert_events = <<>>
    /\ inserted = 0
    /\ upsert_success = FALSE
    /\ upsert_raised = FALSE
    /\ connect_failed = FALSE
    /\ register_calls = <<>>
    /\ result = <<>>
    /\ exc = None
    /\ run_start = [records |-> EmptyRows, registry_file |-> EmptyRows,
                    store |-> EmptyRows, tree |-> EmptyTree, target |-> EmptyTree,
                    target_exists |-> FALSE]
    /\ previous = <<>>

\* What the job system leaves alone.
job_frame ==
    <<grammar_ok, code2prompt, ignore_dirs, chunker_vars, telemetry_enabled, snap,
      snapshots, edits, target_exists, target_files, store_vars, registry_vars,
      run_vars>>

\* The user removes a source folder.
RemoveSource ==
    /\ SourceDir \in DOMAIN disk
    /\ disk' = Restrict(disk, DOMAIN disk \ {SourceDir})
    /\ UNCHANGED <<jobs, direct, responses, telemetry, job_frame>>

\* POST /jobs/ingest
EnqueueIngest ==
    \E name \in RepoNames, include \in IncludeChoices :
        /\ \/ /\ include = <<>> \/ ~resolves(include)
              /\ Len(responses) < MaxRefused
              /\ responses' = Append(responses, 400)
              /\ jobs' = jobs
           \/ /\ include # <<>> /\ resolves(include)
              /\ Len(jobs) < MaxJobs
              /\ jobs' = Append(jobs, create(name, include))
              /\ responses' = responses
        /\ UNCHANGED <<direct, telemetry, disk, job_frame>>

\* _run_ingest_job: set_status(job_id, "running", stage="initializing")
JobStart ==
    \E j \in 1..Len(jobs) :
        /\ jobs[j].at = "queued"
        /\ jobs' = [jobs EXCEPT ![j] = [set_status(@, "running", "initializing")
                                            EXCEPT !.at = "resolve"]]
        /\ UNCHANGED <<direct, responses, telemetry, disk, job_frame>>

\* _run_ingest_job: the job ends failed, and the failure is recorded.
JobFails(j, error, how) ==
    /\ jobs' = [jobs EXCEPT ![j] = [fail(@, error) EXCEPT !.at = "done",
                                                          !.ended = how]]
    /\ \E d \in Durations :
          telemetry' = record_ingest_telemetry(telemetry, telemetry_enabled, d, FALSE)

\* _run_ingest_job: _resolve_include_paths, then index_repository up to
\* cb.stage("copy_started").
JobResolve ==
    \E j \in 1..Len(jobs) :
        /\ jobs[j].at = "resolve"
        /\ IF resolves(jobs[j].include)
           THEN /\ jobs' = [jobs EXCEPT ![j] = [update_stage(@, "copy_started")
                                                   EXCEPT !.at = "copy"]]
                /\ telemetry' = telemetry
           ELSE JobFails(j, "Included folder not found", "unresolved")
        /\ UNCHANGED <<direct, responses, disk, job_frame>>

\* index_repository in the job: the copy, chunk or embedding stage ends and
\* on_stage is given its tags, or the stage raises.
JobStage ==
    \E j \in 1..Len(jobs) :
        /\ jobs[j].at \in DOMAIN StageAfter
        /\ LET at == jobs[j].at
           IN  \/ /\ jobs' = [jobs EXCEPT ![j] =
                                [update_stage(@, StageTagsOf[at][Len(StageTagsOf[at])])
                                    EXCEPT !.at = StageAfter[at]]]
                  /\ telemetry' = telemetry
               \/ JobFails(j, StageError[at], "raised")
        /\ UNCHANGED <<direct, responses, disk, job_frame>>

\* index_repository in the job: the upsert stage, which never raises.
JobUpsert ==
    \E j \in 1..Len(jobs) :
        /\ jobs[j].at = "upsert"
        /\ \E success \in BOOLEAN :
              jobs' = [jobs EXCEPT ![j] = [update_stage(@, upsert_stage_tag(success))
                                              EXCEPT !.at = "register"]]
        /\ UNCHANGED <<direct, responses, telemetry, disk, job_frame>>

\* index_repository registers and returns, or register raises; then
\* job_manager.complete or fail, and _record_ingest_telemetry.
JobEnd ==
    \E j \in 1..Len(jobs) :
        /\ jobs[j].at = "register"
        /\ \/ /\ jobs' = [jobs EXCEPT ![j] =
                            [complete(@, [name |-> jobs[j].name])
                                EXCEPT !.at = "done", !.ended = "returned"]]
              /\ \E d \in Durations :
                    telemetry' =
                        record_ingest_telemetry(telemetry, telemetry_enabled, d, TRUE)
           \/ JobFails(j, StageError.register, "raised")
        /\ UNCHANGED <<direct, responses, disk, job_frame>>

\* POST /ingest: the request is refused, or index_repository is entered.
IngestRepositoryBegin ==
    \E name \in RepoNames, include \in IncludeChoices :
        /\ \/ /\ include = <<>> \/ ~resolves(include)
              /\ Len(responses) < MaxRefused
              /\ responses' = Append(responses, 400)
              /\ direct' = direct
           \/ /\ include # <<>> /\ resolves(include)
              /\ Len(direct) < MaxDirect
              /\ direct' = Append(direct, [name |-> name, at |-> "index"])
              /\ responses' = responses
        /\ UNCHANGED <<jobs, telemetry, disk, job_frame>>

\* POST /ingest: index_repository returns or raises, and the handler records
\* it.
IngestRepositoryEnd ==
    \E k \in 1..Len(direct) :
        /\ direct[k].at = "index"
        /\ \E ok \in BOOLEAN, d \in Durations :
              /\ direct' = [direct EXCEPT ![k].at = IF ok THEN "returned" ELSE "raised"]
              /\ telemetry' = record_ingest_telemetry(telemetry, telemetry_enabled, d, ok)
        /\ UNCHANGED <<jobs, responses, disk, job_frame>>

JobNext ==
    \/ RemoveSource
    \/ EnqueueIngest
    \/ IngestRepositoryBegin
    \/ IngestRepositoryEnd
    \/ JobStart
    \/ JobResolve
    \/ JobStage
    \/ JobUpsert
    \/ JobEnd

JobSpec == JobInit /\ [][JobNext]_vars

\* Every background task is run by a worker thread, and every stage of
\* index_repository ends.
JobFairSpec ==
    /\ JobSpec
    /\ WF_vars(JobStart)
    /\ WF_vars(JobResolve)
    /\ WF_vars(JobStage)
    /\ WF_vars(JobUpsert)
    /\ WF_vars(JobEnd)

(***************************************************************************)
(* Telemetry on its own: worker threads call record_ingest and             *)
(* record_query while another handles GET /telemetry.  The statements       *)
(* under the lock are one step; every attribute read after the lock is     *)
(* released is a step of its own.                                          *)
(***************************************************************************)
\* Most record_ingest and record_query calls, and most snapshots taken.
MaxRecords == 2
MaxSnapshots == 1

\* The attributes snapshot() reads after it released the lock, in the order
\* of the dictionary it returns.
ReadOrder ==
    << <<"ingest", "count">>, <<"ingest", "failures">>,
       <<"ingest", "total_duration_ms">>,
       <<"query", "count">>, <<"query", "failures">>, <<"query", "fallbacks">>,
       <<"query", "total_duration_ms">> >>

TelemetryInit ==
    /\ jobs = <<>>
    /\ direct = <<>>
    /\ responses = <<>>
    /\ telemetry_enabled = TRUE
    /\ telemetry = NewTelemetry
    /\ snap = NoSnapshot
    /\ snapshots = <<>>
    /\ ManagerChunker
    /\ disk = (SourceDir :> InitialTree) @@ (DocsDir :> DocsTree)
    /\ edits = 0
    /\ target_exists = FALSE
    /\ target_files = EmptyTree
    /\ grammar_ok = TRUE
    /\ code2prompt = FALSE
    /\ ignore_dirs = <<>>
    /\ connected = FALSE
    /\ collection = FALSE
    /\ store = EmptyRows
    /\ records = EmptyRows
    /\ registry_file = EmptyRows
    /\ pc = "idle"
    /\ runs = 0
    /\ paths = <<>>
    /\ force = FALSE
    /\ stages = <<>>
    /\ repo_metadata = <<>>
    /\ chunks = <<>>
    /\ batch_size = 0
    /\ loop_start = 0
    /\ vectors = <<>>
    /\ payloads = <<>>
    /\ embed_events = <<>>
    /\ upsert_calls = 0
    /\ upsert_events = <<>>
    /\ inserted = 0
    /\ upsert_success = FALSE
    /\ upsert_raised = FALSE
    /\ connect_failed = FALSE
    /\ register_calls = <<>>
    /\ result = <<>>
    /\ exc = None
    /\ run_start = [records |-> EmptyRows, registry_file |-> EmptyRows,
                    store |-> EmptyRows, tree |-> EmptyTree, target |-> EmptyTree,
                    target_exists |-> FALSE]
    /\ previous = <<>>

\* What Telemetry leaves alone.
telemetry_frame ==
    <<grammar_ok, code2prompt, ignore_dirs, chunker_vars, jobs, direct, responses,
      telemetry_enabled, fs_vars, store_vars, registry_vars, run_vars>>

Recorded == telemetry.ingest.count + telemetry.query.count

\* telemetry.record_ingest(duration_ms, ok, metadata)
RecordIngest ==
    /\ Recorded < MaxRecords
    /\ \E d \in Durations, ok \in BOOLEAN :
          telemetry' = record_ingest(telemetry, d, ok)
    /\ UNCHANGED <<snap, snapshots, telemetry_frame>>

\* telemetry.record_query(duration_ms, ok, used_fallback)
RecordQuery ==
    /\ Recorded < MaxRecords
    /\ \E d \in Durations, ok \in BOOLEAN, used_fallback \in BOOLEAN :
          telemetry' = record_query(telemetry, d, ok, used_fallback)
    /\ UNCHANGED <<snap, snapshots, telemetry_frame>>

\* snapshot(): the statements under the lock.
SnapshotLocked ==
    /\ snap.at = "idle"
    /\ Len(snapshots) < MaxSnapshots
    /\ snap' = [at         |-> "reading",
                ingest_avg |-> average_duration_ms(telemetry.ingest),
                query_avg  |-> average_duration_ms(telemetry.query),
                history    |-> telemetry.history,
                read       |-> <<>>]
    /\ UNCHANGED <<telemetry, snapshots, telemetry_frame>>

\* snapshot(): the next attribute of self._ingest or self._query is read for
\* the dictionary returned, the lock released.
SnapshotRead ==
    /\ snap.at = "reading"
    /\ Len(snap.read) < Len(ReadOrder)
    /\ LET attr == ReadOrder[Len(snap.read) + 1]
       IN  snap' = [snap EXCEPT !.read = Append(@, telemetry[attr[1]][attr[2]])]
    /\ UNCHANGED <<telemetry, snapshots, telemetry_frame>>

\* snapshot() returns the dictionary.
SnapshotReturn ==
    /\ snap.at = "reading"
    /\ Len(snap.read) = Len(ReadOrder)
    /\ snapshots' = Append(snapshots,
          [ingest |-> [count |-> snap.read[1], failures |-> snap.read[2],
                       total_duration_ms |-> snap.read[3],
                       average_duration_ms |-> snap.ingest_avg],
           query  |-> [count |-> snap.read[4], failures |-> snap.read[5],
                       fallbacks |-> snap.read[6],
                       total_duration_ms |-> snap.read[7],
                       average_duration_ms |-> snap.query_avg],
           recent_events |-> snap.history])
    /\ snap' = NoSnapshot
    /\ UNCHANGED <<telemetry, telemetry_frame>>

TelemetryNext ==
    \/ RecordIngest
    \/ RecordQuery
    \/ SnapshotLocked
    \/ SnapshotRead
    \/ SnapshotReturn

TelemetrySpec == TelemetryInit /\ [][TelemetryNext]_vars

(***************************************************************************)
(* Properties of ingest_sources                                            *)
(***************************************************************************)
SourceName(src) == src[Len(src)]

\* ingest_sources returned / the copy loop was entered.
IngestReturned == pc = "chunk"
CopyLoopEntered == pc = "chunk" \/ (pc = "raised" /\ exc = "OSError")

\* C11 (as claimed): a call without force that finds the target directory
\* and returns has left every file that was under the target where it was,
\* with the text it had.
C11_ExistingCopyKept ==
    (~force /\ run_start.target_exists /\ IngestReturned) =>
        \A p \in DOMAIN run_start.target :
           /\ p \in DOMAIN target_files
           /\ target_files[p] = run_start.target[p]

\* C12: a call with force that finds the target directory removes the whole
\* existing copy before it copies: once the copy loop was entered, every file
\* under the target is a file of one of the sources of this call, with the
\* text it has there.
C12_ForceReplacesCopy ==
    (force /\ run_start.target_exists /\ CopyLoopEntered) =>
        \A p \in DOMAIN target_files :
           \E i \in 1..Len(paths) :
              /\ SourceName(paths[i]) = p[1]
              /\ Tail(p) \in DOMAIN disk[paths[i]]
              /\ target_files[p] = disk[paths[i]][Tail(p)]

\* A forced call returned; files of the earlier copy are gone and files of
\* this call are there.
C12_Witness ==
    /\ IngestReturned
    /\ force
    /\ run_start.target_exists
    /\ \E p \in DOMAIN run_start.target : p \notin DOMAIN target_files
    /\ \E p \in DOMAIN target_files : p \notin DOMAIN run_start.target

\* The workspace is as the call found it.
WorkspaceUntouched ==
    /\ target_exists = run_start.target_exists
    /\ target_files = run_start.target
    /\ repo_metadata = <<>>
    /\ stages = <<"copy_started">>

\* C13: with an empty source list the call raises ValueError, with a source
\* path that does not exist FileNotFoundError, and in both cases the target
\* directory is neither created nor removed and nothing is copied, not even
\* the sources listed before the missing one.
C13_RejectedWithoutSideEffect ==
    pc # "copy" =>
        /\ paths = <<>> =>
              /\ pc = "raised"
              /\ exc = "ValueError"
              /\ WorkspaceUntouched
        /\ (paths # <<>> /\ \E i \in 1..Len(paths) : paths[i] \notin DOMAIN disk) =>
              /\ pc = "raised"
              /\ exc = "FileNotFoundError"
              /\ WorkspaceUntouched

\* A forced call over a valid source followed by a missing one, with no
\* target directory yet.
C13_Witness ==
    /\ pc = "raised"
    /\ exc = "FileNotFoundError"
    /\ Len(paths) = 2
    /\ paths[1] \in DOMAIN disk
    /\ force
    /\ ~run_start.target_exists
    /\ ~target_exists

\* The defaults and the caller's patterns, stripped, the empty ones left out.
EffectiveIgnores ==
    {DEFAULT_IGNORE_PATTERNS[i] : i \in 1..Len(DEFAULT_IGNORE_PATTERNS)} \cup
    ({strip(ignore_dirs[i]) : i \in 1..Len(ignore_dirs)} \ {""})

MatchesIgnore(name) == \E pattern \in EffectiveIgnores : fnmatch(name, pattern)

\* C14: the patterns ingest_sources works with are the defaults together
\* with the caller's (every default is among them), and nothing whose name
\* matches one of them is copied: a file that is under the target after the
\* copy loop and was not there before with the same text has no matching
\* name on its path, and after a call that returned no file below a copied
\* source has one.
C14_IgnoredNeverCopied ==
    /\ {ignore_patterns(ignore_dirs)[i] : i \in 1..Len(ignore_patterns(ignore_dirs))}
          = EffectiveIgnores
    /\ CopyLoopEntered =>
          LET kept == IF force /\ run_start.target_exists THEN EmptyTree
                      ELSE run_start.target
          IN  \A p \in DOMAIN target_files :
                 (p \notin DOMAIN kept \/ target_files[p] # kept[p]) =>
                    \A k \in 1..Len(p) : ~MatchesIgnore(p[k])
    /\ IngestReturned =>
          \A p \in DOMAIN target_files :
             (\E i \in 1..Len(paths) :
                 SourceName(paths[i]) = p[1] /\ ~MatchesIgnore(p[1])) =>
                \A k \in 1..Len(p) : ~MatchesIgnore(p[k])

\* A call with caller patterns over two sources holding entries that match a
\* default pattern and a caller pattern returned.
C14_Witness ==
    /\ IngestReturned
    /\ ignore_dirs = <<"*.md", " ", ".git">>
    /\ paths = <<SourceDir, DocsDir>>
    /\ <<"app", "a.py">> \in DOMAIN target_files
    /\ <<"docs", "e.py">> \in DOMAIN target_files
    /\ <<"docs", "r.md">> \notin DOMAIN target_files

(***************************************************************************)
(* Properties of TreeSitterChunker                                         *)
(***************************************************************************)
FileLines == splitlines(file_text)
LineCount == Len(FileLines)
MaxLines == chunker.max_lines_per_chunk
MaxChars == chunker.max_chars_per_chunk

RECURSIVE Weight(_)
\* The characters of some lines, one newline per line included.
Weight(lines) ==
    IF lines = <<>> THEN 0 ELSE Len(lines[1]) + 1 + Weight(Tail(lines))

BlankLine(line) == \A i \in 1..Len(line) : line[i] = " "

\* C15: for N >= 1 lines _segment_lines returns non-empty half-open ranges,
\* in order, each starting where the one before ends, the first at 0 and the
\* last ending at N; a segment has at most max_lines lines, and unless it is
\* a single line its lines, a newline per line included, have at most
\* max_chars characters; for N = 0 there is no segment.
C15_SegmentsPartitionLines ==
    segments_out # <<>> =>
        LET segs == segments_out[1]
        IN  /\ LineCount = 0 => segs = <<>>
            /\ LineCount >= 1 =>
                  /\ Len(segs) >= 1
                  /\ segs[1][1] = 0
                  /\ segs[Len(segs)][2] = LineCount
                  /\ \A k \in 1..Len(segs) :
                        /\ segs[k][1] < segs[k][2]
                        /\ k < Len(segs) => segs[k][2] = segs[k + 1][1]
                        /\ segs[k][2] - segs[k][1] <= MaxLines
                        /\ segs[k][2] - segs[k][1] > 1 =>
                              Weight(SubSeq(FileLines, segs[k][1] + 1, segs[k][2]))
                                 <= MaxChars

\* Several segments, one of them of two lines.
C15_Witness ==
    /\ segments_out # <<>>
    /\ Len(segments_out[1]) >= 2
    /\ \E k \in 1..Len(segments_out[1]) :
          segments_out[1][k][2] - segments_out[1][k][1] = 2

RECURSIVE Rejoins(_, _)
\* The contents of the chunks, in order, make up the text when each is put
\* after the one before either directly (pieces of one line) or after a
\* newline.
Rejoins(cs, text) ==
    IF cs = <<>> THEN text = <<>>
    ELSE LET c    == cs[1].content
             rest == SubSeq(text, Len(c) + 1, Len(text))
         IN  /\ Len(c) <= Len(text)
             /\ SubSeq(text, 1, Len(c)) = c
             /\ IF Len(cs) = 1 THEN rest = <<>>
                ELSE \/ Rejoins(Tail(cs), rest)
                     \/ /\ rest # <<>>
                        /\ rest[1] = NL
                        /\ Rejoins(Tail(cs), Tail(rest))

\* The 1-based numbers of the lines that lie in a segment with a line that
\* is not blank.
KeptLineNumbers ==
    LET segs == segment_lines(FileLines, MaxLines, MaxChars)
    IN  {i \in 1..LineCount :
            \E k \in 1..Len(segs) :
               /\ segs[k][1] < i /\ i <= segs[k][2]
               /\ \E j \in (segs[k][1] + 1)..segs[k][2] : ~BlankLine(FileLines[j])}

RECURSIVE PickLines(_, _)
PickLines(i, numbers) ==
    IF i > LineCount THEN <<>>
    ELSE (IF i \in numbers THEN <<FileLines[i]>> ELSE <<>>) \o PickLines(i + 1, numbers)

\* C16 (as claimed): the contents of the chunks of chunk_file, in order,
\* re-joined by the line structure, are the lines of the file: none dropped,
\* none duplicated, in order.
C16_ChunksRebuildFile ==
    chunks_out # <<>> => Rejoins(chunks_out[1], join(FileLines))

\* C16 (amended): the contents of the chunks of chunk_file, in order,
\* re-joined by the line structure, are the lines of the file that lie in a
\* segment with a non-blank line: none of them dropped, none duplicated, in
\* order; the lines of a segment that is entirely blank are left out.
C16_ChunksRebuildKeptLines ==
    chunks_out # <<>> =>
        Rejoins(chunks_out[1], join(PickLines(1, KeptLineNumbers)))

\* A file with a blank segment that is dropped and a line cut into pieces.
C16_Witness ==
    /\ chunks_out # <<>>
    /\ KeptLineNumbers # 1..LineCount
    /\ Len(chunks_out[1]) >= 2
    /\ \E i \in 1..LineCount : Len(FileLines[i]) > MaxChars

\* C17: every chunk of chunk_file has at most max_chars_per_chunk characters
\* and spans at most max_lines_per_chunk lines, the pieces of a line longer
\* than max_chars_per_chunk included.
C17_ChunksAreBounded ==
    chunks_out # <<>> =>
        \A k \in 1..Len(chunks_out[1]) :
           /\ Len(chunks_out[1][k].content) <= MaxChars
           /\ chunks_out[1][k].end_line - chunks_out[1][k].start_line + 1 <= MaxLines

\* The only line of the file is longer than max_chars_per_chunk and was cut.
C17_Witness ==
    /\ chunks_out # <<>>
    /\ LineCount = 1
    /\ Len(FileLines[1]) > MaxChars
    /\ Len(chunks_out[1]) >= 2

\* C18 (as claimed): every chunk of chunk_file has 1 <= start_line <=
\* end_line <= N, and start_line and end_line lie in the line range of one
\* segment of the file.
C18_LineRangeInsideSegment ==
    chunks_out # <<>> =>
        LET segs == segment_lines(FileLines, MaxLines, MaxChars)
        IN  \A k \in 1..Len(chunks_out[1]) :
               /\ 1 <= chunks_out[1][k].start_line
               /\ chunks_out[1][k].start_line <= chunks_out[1][k].end_line
               /\ chunks_out[1][k].end_line <= LineCount
               /\ \E j \in 1..Len(segs) :
                     /\ segs[j][1] + 1 <= chunks_out[1][k].start_line
                     /\ chunks_out[1][k].end_line <= segs[j][2]

WithoutLastNewline(text) ==
    IF text # <<>> /\ text[Len(text)] = NL THEN SubSeq(text, 1, Len(text) - 1)
    ELSE text

\* The file is the single chunk from line 1 to line N with the file's lines
\* (each line ended by one newline, but for the last).
OneChunkOfWholeFile ==
    /\ Len(chunks_out[1]) = 1
    /\ chunks_out[1][1].start_line = 1
    /\ chunks_out[1][1].end_line = LineCount
    /\ chunks_out[1][1].content = WithoutLastNewline(read_text(file_text))

\* C20 (as claimed): a non-blank file of N >= 1 lines with N <=
\* max_lines_per_chunk and at most max_chars_per_chunk characters, newlines
\* included, gives exactly one chunk, from line 1 to line N, whose content is
\* the file's lines joined by newline.
C20_FittingFileIsOneChunk ==
    (/\ chunks_out # <<>>
     /\ ~IsBlank(file_text)
     /\ LineCount >= 1
     /\ LineCount <= MaxLines
     /\ Len(file_text) <= MaxChars) => OneChunkOfWholeFile

\* C20 (amended): a non-blank file of N >= 1 lines with N <=
\* max_lines_per_chunk whose lines, one newline counted for every line, have
\* at most max_chars_per_chunk characters gives exactly one chunk, from line
\* 1 to line N, whose content is the file's lines joined by newline.
C20_FittingLinesAreOneChunk ==
    (/\ chunks_out # <<>>
     /\ ~IsBlank(file_text)
     /\ LineCount >= 1
     /\ LineCount <= MaxLines
     /\ Weight(FileLines) <= MaxChars) => OneChunkOfWholeFile

\* A file of two lines that fits both limits.
C20_Witness ==
    /\ chunks_out # <<>>
    /\ ~IsBlank(file_text)
    /\ LineCount = 2
    /\ LineCount <= MaxLines
    /\ Weight(FileLines) <= MaxChars
    /\ Len(chunks_out[1]) = 1

(***************************************************************************)
(* Properties of chunk_repository.                                         *)
(***************************************************************************)
ChunkRepositoryReturned == pc = "embed"

\* Chunk i is the first chunk of its file and starts on line 1: it is the
\* first piece of the first segment of the file.
FirstPieceOfFirstSegment(i) ==
    /\ chunks[i].start_line = 1
    /\ \A j \in 1..(i - 1) : chunks[j].path # chunks[i].path

\* C21: among the chunks chunk_repository returns, after the optional
\* Code2Prompt refinement, only the first piece of the first segment of a
\* file carries a symbol; every other chunk has symbol None.
C21_OnlyFirstPieceHasSymbol ==
    ChunkRepositoryReturned =>
        \A i \in 1..Len(chunks) :
            chunks[i].symbol # None => FirstPieceOfFirstSegment(i)

(***************************************************************************)
(* Properties of the two chunking paths.                                   *)
(***************************************************************************)
\* What _chunk_with_tree_sitter and _build_fallback_chunks give for the file.
StructuralChunks ==
    chunk_with_tree_sitter(ChunkedPath, file_text, "python", MaxLines, MaxChars)
FallbackChunks ==
    build_fallback_chunks(ChunkedPath, file_text, "python", MaxLines, MaxChars)

\* Two chunks agree on everything but the symbol.
SameButSymbol(a, b) ==
    /\ a.path = b.path
    /\ a.language = b.language
    /\ a.start_line = b.start_line
    /\ a.end_line = b.end_line
    /\ a.content = b.content

\* C22: for the same file and limits the structural path and the plain-text
\* fallback give lists of the same length that agree chunk by chunk on path,
\* language, start_line, end_line and content; every fallback chunk has
\* symbol None; and chunking the file a second time gives the same list.
C22_PathsAgreeButSymbol ==
    chunks_out # <<>> =>
        /\ chunks_out[1] = IF grammar_ok THEN StructuralChunks ELSE FallbackChunks
        /\ Len(StructuralChunks) = Len(FallbackChunks)
        /\ \A i \in 1..Len(StructuralChunks) :
              SameButSymbol(StructuralChunks[i], FallbackChunks[i])
        /\ \A i \in 1..Len(FallbackChunks) : FallbackChunks[i].symbol = None
        /\ \A k \in 1..Len(chunks_out) : chunks_out[k] = chunks_out[1]

\* A file with a carriage return, chunked twice by the structural path into
\* two chunks, the first with a symbol.
C22_Witness ==
    /\ Len(chunks_out) = 2
    /\ grammar_ok
    /\ \E i \in 1..Len(file_text) : file_text[i] = CR
    /\ Len(chunks_out[1]) = 2
    /\ chunks_out[1][1].symbol # None
    /\ FallbackChunks[1].symbol = None

(***************************************************************************)
(* Properties of the job system.                                           *)
(***************************************************************************)
\* The repository names of the runs of index_repository in progress, job j
\* and /ingest request k apart.
JobIndexing(j) == jobs[j].status = "running"
DirectIndexing(k) == direct[k].at = "index"

\* C23: at no time are two runs of index_repository for the same repository
\* name in progress: never two ingest jobs of one name both running, nor a
\* running job and an /ingest request of one name.
C23_OneRunPerName ==
    /\ \A i, j \in 1..Len(jobs) :
          (i # j /\ JobIndexing(i) /\ JobIndexing(j)) => jobs[i].name # jobs[j].name
    /\ \A j \in 1..Len(jobs), k \in 1..Len(direct) :
          (JobIndexing(j) /\ DirectIndexing(k)) => jobs[j].name # direct[k].name
    /\ \A k, l \in 1..Len(direct) :
          (k # l /\ DirectIndexing(k) /\ DirectIndexing(l)) =>
              direct[k].name # direct[l].name

(***************************************************************************)
(* Further properties of index_repository.                                 *)
(***************************************************************************)
Coordinates(chunk) == <<chunk.path, chunk.start_line, chunk.end_line>>

\* C24: within one run the (path, start_line, end_line) coordinates of the
\* chunks are pairwise distinct, so no two chunks receive the same id, and
\* a clean upsert into an empty store leaves chunk_count records.
C24_ChunkCoordinatesDistinct ==
    /\ \A i, j \in 1..Len(chunks) :
          i # j => Coordinates(chunks[i]) # Coordinates(chunks[j])
    /\ (/\ pc = "returned"
        /\ CleanRun
        /\ upsert_calls = 1
        /\ run_start.store = EmptyRows)
       => Cardinality(DOMAIN store) = result[1].chunk_count

StagesReported == {stages[i] : i \in 1..Len(stages)}

\* C25: upsert_completed is reported only in a run in which
\* upsert_embeddings was called and returned without raising; a run in which
\* upsert_embeddings was not called, so that nothing was written to the
\* store, reports upsert_failed.
C25_CompletedMeansUpserted ==
    /\ "upsert_completed" \in StagesReported => (upsert_calls = 1 /\ ~upsert_raised)
    /\ (StagesReported \cap TerminalTags # {} /\ upsert_calls = 0)
          => "upsert_failed" \in StagesReported

SeqRange(s) == {s[i] : i \in 1..Len(s)}

\* The run in hand is a clean run with force whose upsert was made, and the
\* store it started from was empty or held exactly the records of the clean
\* run with force before it.
CleanForcedRuns ==
    /\ force
    /\ CleanRun
    /\ upsert_calls = 1
    /\ \/ run_start.store = EmptyRows
       \/ /\ previous # <<>>
          /\ previous[1].force
          /\ previous[1].clean
          /\ DOMAIN run_start.store = SeqRange(previous[1].ids)

\* C26: after clean runs with force for the same repository name the store
\* holds exactly the records of the chunks of the latest run: no record of
\* an earlier run whose chunk no longer exists is left.
C26_StoreHoldsLatestRun ==
    (pc = "returned" /\ CleanForcedRuns) =>
        DOMAIN store = {payloads[i].id : i \in 1..Len(payloads)}

(***************************************************************************)
(* Further properties of ingest_sources.                                   *)
(***************************************************************************)
\* The files of a source that no ignore pattern keeps out.
CopiedFilesOf(src) ==
    {rel \in DOMAIN disk[src] : \A k \in 1..Len(rel) : ~MatchesIgnore(rel[k])}

\* The target holds the copy of the source: its files, with their text,
\* under the source's name.
HoldsCopyOf(src) ==
    \A rel \in CopiedFilesOf(src) :
        /\ (<<SourceName(src)>> \o rel) \in DOMAIN target_files
        /\ target_files[<<SourceName(src)>> \o rel] = disk[src][rel]

\* C27: after a call that returned, the target holds a copy of every source
\* whose name matches no ignore pattern, also when two sources have the same
\* name.
C27_EverySourceCopied ==
    IngestReturned =>
        \A i \in 1..Len(paths) :
            ~MatchesIgnore(SourceName(paths[i])) => HoldsCopyOf(paths[i])

(***************************************************************************)
(* Properties of RepositoryRegistry.                                       *)
(***************************************************************************)
\* C28: when persisting the registry file raises inside register, the
\* records in memory are what they were before the call, and the registry in
\* memory and the registry file always name the same repositories.
C28_RegisterIsAtomic ==
    /\ (pc = "raised" /\ exc = "RegistryError") => records = run_start.records
    /\ DOMAIN records = DOMAIN registry_file

TerminalStatus == {"completed", "failed"}
StatusSteps ==
    { <<"queued", "running">>, <<"running", "completed">>, <<"running", "failed">> }

\* What holds of job j at any time.
JobFacts(j) ==
    /\ jobs[j].status \in {"queued", "running"} \cup TerminalStatus
    /\ jobs[j].status = "queued" <=> jobs[j].at = "queued"
    /\ jobs[j].status = "completed" <=> jobs[j].ended = "returned"
    /\ jobs[j].status = "failed" <=> jobs[j].ended \in {"raised", "unresolved"}
    /\ jobs[j].status = "completed" => (jobs[j].result # <<>> /\ jobs[j].error = None)
    /\ jobs[j].status = "failed" => (jobs[j].error # None /\ jobs[j].result = <<>>)
    /\ jobs[j].at = "done" => jobs[j].status \in TerminalStatus

\* C29: every ingest job goes queued -> running -> completed or failed; it
\* is completed, with a result and no error, exactly when index_repository
\* returned (also when its last stage is upsert_failed) and failed, with an
\* error and no result, exactly when path resolution or index_repository
\* raised; a terminal status never changes, and a running job always reaches
\* one.
C29_JobLifecycle ==
    /\ [](\A j \in 1..Len(jobs) : JobFacts(j))
    /\ [][\A j \in 1..Len(jobs) :
             jobs'[j].status # jobs[j].status =>
                <<jobs[j].status, jobs'[j].status>> \in StatusSteps]_vars
    /\ \A j \in 1..MaxJobs :
          (j <= Len(jobs) /\ jobs[j].status \in {"queued", "running"})
             ~> (j <= Len(jobs) /\ jobs[j].status \in TerminalStatus)

\* One job completed after a degraded run, another failed.
C29_Witness ==
    \E i, j \in 1..Len(jobs) :
        /\ jobs[i].status = "completed"
        /\ jobs[i].stage = "upsert_failed"
        /\ jobs[i].result # <<>>
        /\ jobs[j].status = "failed"
        /\ jobs[j].ended = "raised"

(***************************************************************************)
(* Properties of Telemetry.                                                *)
(***************************************************************************)
\* average_duration_ms * count = total_duration_ms, the average being the
\* fraction <<numerator, denominator>>.
AverageAgrees(stats) ==
    stats.average_duration_ms[1] * stats.count =
        stats.total_duration_ms * stats.average_duration_ms[2]

\* C30: every snapshot returned is a view of one point in time, also with
\* record_ingest and record_query running on other threads: for ingest and
\* for query, average_duration_ms * count = total_duration_ms and failures
\* <= count, and there are min(ingest count + query count, history_size)
\* recent events.
C30_SnapshotIsConsistent ==
    \A n \in 1..Len(snapshots) :
        LET s == snapshots[n]
        IN  /\ AverageAgrees(s.ingest)
            /\ AverageAgrees(s.query)
            /\ s.ingest.failures <= s.ingest.count
            /\ s.query.failures <= s.query.count
            /\ Len(s.recent_events) = Min(s.ingest.count + s.query.count, history_size)

=============================================================================
